---- MODULE Spec2Model ----
(***************************************************************************)
(* ATLAS synchronization engine: the job ledger (sync_logs), the           *)
(* orchestrator endpoints of app/routers/utilities.py, the three bulk sync *)
(* scripts and the in-app scheduler of app/services/sync_scheduler.py.     *)
(*                                                                         *)
(* Request handlers are atomic steps.  A sync script is a separate OS      *)
(* process that takes two steps: it inserts its 'running' row, and later   *)
(* commits its final status.  Background tasks and scheduler threads that  *)
(* call run_sync_script are pending launches until they execute.           *)
(***************************************************************************)
EXTENDS Integers, Sequences, FiniteSets

VARIABLES
    sync_logs,          \* table sync_logs: sequence of rows, id = index
    procs,              \* OS processes running a sync script, pid = index
    RUNNING_PROCESSES,  \* utilities.RUNNING_PROCESSES: source -> pid, 0 = no entry
    tasks,              \* pending run_sync_script calls: <<source, trigger>> -> count
    sync_schedules,     \* table sync_schedules: source -> row
    now,                \* datetime.utcnow(), in minutes
    last,               \* the step just taken and what it answered
    sync_notifications, \* table sync_notifications: sequence of rows
    sched_pc,           \* where scheduler_loop is: "check", "notify", "sleep"
    wake,               \* when the current asyncio.sleep(60) ends
    upstream,           \* what the upstream APIs return to the connectors
    store,              \* the rows of the local store the connectors write
    returned            \* what the connector or resolver call returned

vars == <<sync_logs, procs, RUNNING_PROCESSES, tasks, sync_schedules, now, last,
          sync_notifications, sched_pc, wake, upstream, store, returned>>

\* upstream data, store rows and return values of the connector functions
data_vars == <<upstream, store, returned>>

\* the position of scheduler_loop
loop_vars == <<sched_pc, wake>>

\* what the orchestrator and the scripts never write
other_vars == <<sync_schedules, now, sync_notifications, loop_vars, data_vars>>

----------------------------------------------------------------------------
(* Bounds *)

MaxJobs == 2        \* sync processes started in one behaviour
MaxPending == 1     \* pending run_sync_script calls per source and trigger
MaxTime == 4        \* the clock stops at this minute
MaxTickDelay == 2   \* minutes one iteration of scheduler_loop may spend between
                    \* the end of its sleep and its notification query
MaxUsers == 3       \* users in one upstream listing
BatchSize == 2      \* batch_size of the bulk user syncs (100 in the code)
MaxFees == 3        \* fee entries in one user's fee field, before duplicates
MaxRows == 4        \* largest TotalRows the paged endpoints report
MaxItems == 2       \* items on one page

----------------------------------------------------------------------------
(* Values *)

Sources == {"iiq", "google", "meraki"}
Requested == Sources \cup {"other"}     \* path parameter {source}
Triggers == {"manual", "scheduled", "cron"}
Terminal == {"success", "partial", "error", "cancelled"}
NULL == -1
NotifyWindow == 2       \* timedelta(minutes=2)
SleepMinutes == 1       \* asyncio.sleep(60)
MaxMessage == 500       \* str(e)[:500]
\* A text is its wording and its number of characters
NoMessage == [text |-> "NULL", len |-> 0]
CancelMessage == [text |-> "Cancelled by user", len |-> 17]
\* str(e) of an exception, short, of 500 characters or longer
ExcLengths == {12, 500, 501}
Exception(n) == [text |-> "str(e)", len |-> n]

\* the whole of str(e)
ErrorMessage_untruncated(e) == e

\* str(e)[:500]
ErrorMessage(e) ==
    [e EXCEPT !.len = IF @ > MaxMessage THEN MaxMessage ELSE @]

TaskKeys == Sources \X {"manual", "scheduled"}

\* Inputs of the handlers
TickInputs == {<<14, 0>>, <<14, 30>>, <<3, 0>>}    \* local hour and minute
HoursInputs == {<<14, 2, 14>>, <<2, 24>>}
\* data.hours of the schedule specification
ScheduleHours == HoursInputs \cup {<<>>, <<23, 0, 23>>, <<5>>, <<-1, 5>>}
EnabledInputs == {"None", "True", "False"}

\* dict.get(key, default)
Get(d, k, default) == IF k \in DOMAIN d THEN d[k] ELSE default

\* db.query(SyncLog).filter(source == s, status == "running")
RunningIds(s) ==
    {i \in DOMAIN sync_logs :
        sync_logs[i].source = s /\ sync_logs[i].status = "running"}
HasRunning(s) == RunningIds(s) # {}

NoResponse ==
    [op |-> "none", source |-> "none", code |-> 0, started |-> {},
     skipped |-> {}, signals |-> {}, hour |-> NULL, minute |-> NULL,
     hours |-> <<>>]

Response(op, source, code) ==
    [NoResponse EXCEPT !.op = op, !.source = source, !.code = code]

\* SyncLog(source=..., started_at=utcnow(), status="running", triggered_by=...)
\* cancel_requested is not a column: it remembers that cancel_sync marked
\* the row, whatever is written to the row afterwards
SyncLog(source, triggered_by) ==
    [source |-> source, status |-> "running", completed_at |-> NULL,
     records_processed |-> 0, records_failed |-> 0,
     error_message |-> NoMessage, error_details |-> <<>>,
     triggered_by |-> triggered_by, cancel_requested |-> FALSE]

Alive(p) == procs[p].pc # "exited"

----------------------------------------------------------------------------
InitEngine ==
    /\ sync_logs = <<>>
    /\ procs = <<>>
    /\ RUNNING_PROCESSES = [s \in Sources |-> 0]
    /\ tasks = [k \in TaskKeys |-> 0]
    /\ sync_schedules = [s \in Sources |-> [present |-> FALSE, enabled |-> FALSE, hours |-> <<>>]]
    /\ now = 0
    /\ last = NoResponse
    /\ sync_notifications = <<>>
    /\ sched_pc = "check"
    /\ wake = 0

\* nothing has been called yet
NoReturn == [connector |-> "none"]

Init ==
    /\ InitEngine
    /\ upstream = <<>>
    /\ store = <<>>
    /\ returned = NoReturn

----------------------------------------------------------------------------
(* Orchestrator endpoints *)

\* trigger_sync without the "already running" check
trigger_sync_unchecked(source) ==
    IF source \notin Sources THEN
        /\ last' = Response("trigger_sync", source, 400)
        /\ UNCHANGED <<sync_logs, procs, RUNNING_PROCESSES, tasks, other_vars>>
    ELSE
        /\ tasks[<<source, "manual">>] < MaxPending
        /\ tasks' = [tasks EXCEPT ![<<source, "manual">>] = @ + 1]
        /\ last' = Response("trigger_sync", source, 200)
        /\ UNCHANGED <<sync_logs, procs, RUNNING_PROCESSES, other_vars>>

\* POST /sync/{source}
trigger_sync(source) ==
    IF source \notin Sources THEN
        /\ last' = Response("trigger_sync", source, 400)
        /\ UNCHANGED <<sync_logs, procs, RUNNING_PROCESSES, tasks, other_vars>>
    ELSE IF HasRunning(source) THEN
        /\ last' = Response("trigger_sync", source, 409)
        /\ UNCHANGED <<sync_logs, procs, RUNNING_PROCESSES, tasks, other_vars>>
    ELSE
        /\ tasks[<<source, "manual">>] < MaxPending
        /\ tasks' = [tasks EXCEPT ![<<source, "manual">>] = @ + 1]
        /\ last' = Response("trigger_sync", source, 200)
        /\ UNCHANGED <<sync_logs, procs, RUNNING_PROCESSES, other_vars>>

\* trigger_all_syncs that starts nothing once it meets a running source
trigger_all_syncs_all_or_nothing ==
    LET skipped == {s \in Sources : HasRunning(s)}
        started == IF skipped = {} THEN Sources ELSE {}
    IN  /\ \A s \in started : tasks[<<s, "manual">>] < MaxPending
        /\ tasks' = [k \in TaskKeys |->
                        IF k[2] = "manual" /\ k[1] \in started
                        THEN tasks[k] + 1 ELSE tasks[k]]
        /\ last' = [Response("trigger_all_syncs", "all", 200)
                        EXCEPT !.started = started, !.skipped = skipped]
        /\ UNCHANGED <<sync_logs, procs, RUNNING_PROCESSES, other_vars>>

\* POST /sync/all
trigger_all_syncs ==
    LET skipped == {s \in Sources : HasRunning(s)}
        started == Sources \ skipped
    IN  /\ \A s \in started : tasks[<<s, "manual">>] < MaxPending
        /\ tasks' = [k \in TaskKeys |->
                        IF k[2] = "manual" /\ k[1] \in started
                        THEN tasks[k] + 1 ELSE tasks[k]]
        /\ last' = [Response("trigger_all_syncs", "all", 200)
                        EXCEPT !.started = started, !.skipped = skipped]
        /\ UNCHANGED <<sync_logs, procs, RUNNING_PROCESSES, other_vars>>

\* cancel_sync that leaves completed_at as it was
cancel_sync_no_completed_at(source, graceful) ==
    IF source \notin Sources THEN
        /\ graceful
        /\ last' = Response("cancel_sync", source, 400)
        /\ UNCHANGED <<sync_logs, procs, RUNNING_PROCESSES, tasks, other_vars>>
    ELSE IF ~HasRunning(source) THEN
        /\ graceful
        /\ last' = Response("cancel_sync", source, 404)
        /\ UNCHANGED <<sync_logs, procs, RUNNING_PROCESSES, tasks, other_vars>>
    ELSE
        \E id \in RunningIds(source) :
            LET process == RUNNING_PROCESSES[source]
                signalled == process # 0 /\ Alive(process)
            IN  /\ (~signalled) => graceful
                /\ procs' = IF signalled
                            THEN [procs EXCEPT ![process].pc = "exited"]
                            ELSE procs
                /\ sync_logs' = [sync_logs EXCEPT
                        ![id].status = "cancelled",
                        ![id].error_message = CancelMessage,
                        ![id].cancel_requested = TRUE]
                /\ RUNNING_PROCESSES' = [RUNNING_PROCESSES EXCEPT ![source] = 0]
                /\ last' = [Response("cancel_sync", source, 200) EXCEPT
                        !.signals = IF ~signalled THEN {}
                                    ELSE IF graceful THEN {"SIGTERM"}
                                    ELSE {"SIGTERM", "SIGKILL"}]
                /\ UNCHANGED <<tasks, other_vars>>

\* cancel_sync that terminates the tracked process and forgets it before it
\* looks for the running row
cancel_sync_kills_first(source, graceful) ==
    IF source \notin Sources THEN
        /\ graceful
        /\ last' = Response("cancel_sync", source, 400)
        /\ UNCHANGED <<sync_logs, procs, RUNNING_PROCESSES, tasks, other_vars>>
    ELSE
        LET process == RUNNING_PROCESSES[source]
            signalled == process # 0 /\ Alive(process)
            signals == IF ~signalled THEN {}
                       ELSE IF graceful THEN {"SIGTERM"}
                       ELSE {"SIGTERM", "SIGKILL"}
        IN  /\ (~signalled) => graceful
            /\ procs' = IF signalled
                        THEN [procs EXCEPT ![process].pc = "exited"]
                        ELSE procs
            /\ RUNNING_PROCESSES' = [RUNNING_PROCESSES EXCEPT ![source] = 0]
            /\ IF ~HasRunning(source)
               THEN /\ last' = [Response("cancel_sync", source, 404) EXCEPT !.signals = signals]
                    /\ UNCHANGED sync_logs
               ELSE \E id \in RunningIds(source) :
                    /\ sync_logs' = [sync_logs EXCEPT
                            ![id].status = "cancelled",
                            ![id].completed_at = now,
                            ![id].error_message = CancelMessage,
                            ![id].cancel_requested = TRUE]
                    /\ last' = [Response("cancel_sync", source, 200) EXCEPT !.signals = signals]
            /\ UNCHANGED <<tasks, other_vars>>

\* POST /sync/{source}/cancel
\* graceful: the process exits within the 5 second wait after SIGTERM
cancel_sync(source, graceful) ==
    IF source \notin Sources THEN
        /\ graceful
        /\ last' = Response("cancel_sync", source, 400)
        /\ UNCHANGED <<sync_logs, procs, RUNNING_PROCESSES, tasks, other_vars>>
    ELSE IF ~HasRunning(source) THEN
        /\ graceful
        /\ last' = Response("cancel_sync", source, 404)
        /\ UNCHANGED <<sync_logs, procs, RUNNING_PROCESSES, tasks, other_vars>>
    ELSE
        \E id \in RunningIds(source) :      \* .first() with no ORDER BY
            LET process == RUNNING_PROCESSES[source]
                signalled == process # 0 /\ Alive(process)
            IN  /\ (~signalled) => graceful
                /\ procs' = IF signalled
                            THEN [procs EXCEPT ![process].pc = "exited"]
                            ELSE procs
                /\ sync_logs' = [sync_logs EXCEPT
                        ![id].status = "cancelled",
                        ![id].completed_at = now,
                        ![id].error_message = CancelMessage,
                        ![id].cancel_requested = TRUE]
                /\ RUNNING_PROCESSES' = [RUNNING_PROCESSES EXCEPT ![source] = 0]
                /\ last' = [Response("cancel_sync", source, 200) EXCEPT
                        !.signals = IF ~signalled THEN {}
                                    ELSE IF graceful THEN {"SIGTERM"}
                                    ELSE {"SIGTERM", "SIGKILL"}]
                /\ UNCHANGED <<tasks, other_vars>>

\* run_sync_script(source, trigger), executed by a background task or a
\* scheduler thread.  popen_ok = FALSE: subprocess.Popen (or open) raised,
\* which the function catches.
run_sync_script(source, trigger, popen_ok) ==
    /\ tasks[<<source, trigger>>] > 0
    /\ Len(procs) < MaxJobs
    /\ tasks' = [tasks EXCEPT ![<<source, trigger>>] = @ - 1]
    /\ IF popen_ok
       THEN /\ procs' = Append(procs, [source |-> source, trigger |-> trigger,
                                       pc |-> "start", log |-> 0])
            /\ RUNNING_PROCESSES' = [RUNNING_PROCESSES EXCEPT ![source] = Len(procs) + 1]
       ELSE UNCHANGED <<procs, RUNNING_PROCESSES>>
    /\ last' = NoResponse
    /\ UNCHANGED <<sync_logs, other_vars>>

\* cron / command line: python scripts/<source>_bulk_sync.py
cron_run(source) ==
    /\ Len(procs) < MaxJobs
    /\ procs' = Append(procs, [source |-> source, trigger |-> "cron",
                               pc |-> "start", log |-> 0])
    /\ last' = NoResponse
    /\ UNCHANGED <<sync_logs, RUNNING_PROCESSES, tasks, other_vars>>

----------------------------------------------------------------------------
(* Connector results, as the scripts receive them *)

\* {"success": n, "errors": m, ...} returned by the bulk_sync functions:
\* one record synced, none or one failed
Results == [success : {1}, errors : {0, 1}]
\* MerakiBulkSync.bulk_sync: {"total_success": n, "total_errors": m, ...}
MerakiResults == [total_success : {1}, total_errors : {0, 1}]
\* the call raised instead of returning
Raised == [raised |-> TRUE, e |-> Exception(12)]
\* the call raised an exception with a text of any length
Raisings == {[raised |-> TRUE, e |-> Exception(n)] : n \in ExcLengths}
\* no exception left the try block
NotRaised == [returned |-> TRUE]
IsRaised(o) == "raised" \in DOMAIN o
Outcomes == Results \cup {Raised}
MerakiOutcomes == MerakiResults \cup {Raised}
\* one outcome per enabled IIQSyncConfig row that has a sync function
IIQRuns == {<<>>} \cup {<<o>> : o \in Outcomes}

\* the inputs of the scheduler specification: every call succeeds or raises
Succeeded == [success |-> 1, errors |-> 0]
MerakiSucceeded == [total_success |-> 1, total_errors |-> 0]

\* iiq_bulk_sync.py, the loop over enabled_sources
RECURSIVE IIQTotals(_)
IIQTotals(outs) ==
    IF outs = <<>> THEN [records |-> 0, failed |-> 0]
    ELSE LET n == Len(outs)
             acc == IIQTotals(SubSeq(outs, 1, n - 1))
             result == outs[n]
         IN  IF IsRaised(result)
             THEN [acc EXCEPT !.failed = @ + 1]
             ELSE [records |-> acc.records + Get(result, "inserted", 0)
                                + Get(result, "updated", 0) + Get(result, "success", 0),
                   failed |-> acc.failed + Get(result, "failed", 0)]

Finish(p, status, processed, failed, message, details) ==
    LET id == procs[p].log
    IN  /\ sync_logs' = [sync_logs EXCEPT
                ![id].status = status,
                ![id].completed_at = now,
                ![id].records_processed = processed,
                ![id].records_failed = failed,
                ![id].error_message = message,
                ![id].error_details = details]
        /\ procs' = [procs EXCEPT ![p].pc = "exited"]

CreateLog(p) ==
    /\ sync_logs' = Append(sync_logs, SyncLog(procs[p].source, procs[p].trigger))
    /\ procs' = [procs EXCEPT ![p].pc = "try", ![p].log = Len(sync_logs) + 1]

----------------------------------------------------------------------------
(* Bulk user syncs: GoogleConnector.bulk_sync_users, IIQConnector.bulk_sync_users *)

\* One user of the upstream listing.  id stands for the source key and the
\* e-mail address, value for the other attributes.  kind "rejected": the
\* database refuses every INSERT that contains the row; kind "malformed":
\* building user_data from the record raises.
UserIds == 1..3
UserRecords == [id : UserIds, kind : {"valid", "rejected", "malformed"}, value : {"a", "b"}]
UserLists == UNION {[1..n -> UserRecords] : n \in 0..MaxUsers}

\* the tables before the run: empty, or one row from an earlier run
StaleRows == {<<>>, <<[id |-> 1, value |-> "old"]>>}
EmptyStore ==
    [google_users |-> <<>>, iiq_users |-> <<>>, iiq_assets |-> <<>>, meraki_ssids |-> <<>>]
Stores ==
    [google_users : StaleRows, iiq_users : StaleRows,
     iiq_assets : {<<>>}, meraki_ssids : {<<>>}]
    \cup [google_users : {<<>>}, iiq_users : {<<>>},
           iiq_assets : StaleRows, meraki_ssids : StaleRows]

\* a plain INSERT into a table without the key constraint
UpsertRow_insert(rows, r) ==
    Append(rows, [id |-> r.id, value |-> r.value])

\* INSERT ... VALUES (one row) ON CONFLICT (key) DO UPDATE SET ...
UpsertRow(rows, r) ==
    IF \E k \in DOMAIN rows : rows[k].id = r.id
    THEN [k \in DOMAIN rows |->
            IF rows[k].id = r.id THEN [id |-> r.id, value |-> r.value] ELSE rows[k]]
    ELSE Append(rows, [id |-> r.id, value |-> r.value])

RECURSIVE UpsertRows(_, _)
UpsertRows(rows, batch) ==
    IF batch = <<>> THEN rows
    ELSE UpsertRows(UpsertRow(rows, Head(batch)), Tail(batch))

\* db.execute(stmt) succeeds: the database accepts every row, and no two rows
\* of the statement have the same key (PostgreSQL refuses an ON CONFLICT DO
\* UPDATE that would touch a row twice)
Accepted(batch) ==
    /\ \A k \in DOMAIN batch : batch[k].kind = "valid"
    /\ \A j, k \in DOMAIN batch : batch[j].id = batch[k].id => j = k

\* the local variables of bulk_sync_users, with the table it writes
NoUsersSynced(rows) ==
    [batch |-> <<>>, success_count |-> 0, error_count |-> 0,
     error_details |-> <<>>, seen_user_ids |-> {}, rows |-> rows]

\* GoogleConnector: the batch failed, every user of it is upserted alone
RECURSIVE GoogleRetry(_, _)
GoogleRetry(st, batch) ==
    IF batch = <<>> THEN st
    ELSE LET user == Head(batch)
             next == IF Accepted(<<user>>)
                     THEN [st EXCEPT !.rows = UpsertRow(@, user),
                                     !.success_count = @ + 1]
                     ELSE [st EXCEPT !.error_count = @ + 1,
                                     !.error_details = Append(@, [identifier |-> user.id])]
         IN  GoogleRetry(next, Tail(batch))

\* GoogleConnector: _upsert_users_batch(db, batch) and its except branch
GoogleCommit(st) ==
    IF Accepted(st.batch)
    THEN [st EXCEPT !.rows = UpsertRows(@, st.batch),
                    !.success_count = @ + Len(st.batch),
                    !.batch = <<>>]
    ELSE [GoogleRetry(st, st.batch) EXCEPT !.batch = <<>>]

\* GoogleConnector.bulk_sync_users, the loop over fetch_all_users()
RECURSIVE GoogleUsersLoop(_, _)
GoogleUsersLoop(users, rows) ==
    IF users = <<>> THEN NoUsersSynced(rows)
    ELSE LET n == Len(users)
             st == GoogleUsersLoop(SubSeq(users, 1, n - 1), rows)
             raw_data == users[n]
         IN  IF raw_data.kind = "malformed"
             THEN [st EXCEPT !.error_count = @ + 1,
                             !.error_details = Append(@, [identifier |-> raw_data.id])]
             ELSE LET st2 == [st EXCEPT !.batch = Append(@, raw_data)]
                  IN  IF Len(st2.batch) >= BatchSize THEN GoogleCommit(st2) ELSE st2

\* GoogleConnector.bulk_sync_users: the rows of google_users after the run and
\* the dict it returns
GoogleConnector_bulk_sync_users(users, rows) ==
    LET st == GoogleUsersLoop(users, rows)
        end == IF st.batch # <<>> THEN GoogleCommit(st) ELSE st
    IN  [rows |-> end.rows,
         result |-> [success |-> end.success_count, errors |-> end.error_count,
                     error_details |-> end.error_details]]

\* IIQConnector: db.execute(stmt); db.commit() and its except branch
IIQCommit(st) ==
    IF Accepted(st.batch)
    THEN [st EXCEPT !.rows = UpsertRows(@, st.batch), !.batch = <<>>]
    ELSE [st EXCEPT !.error_count = @ + Len(st.batch),
                    !.success_count = @ - Len(st.batch),
                    !.batch = <<>>]

\* IIQConnector.bulk_sync_users, the loop over fetch_all_users_paginated()
RECURSIVE IIQUsersLoop(_, _)
IIQUsersLoop(users, rows) ==
    IF users = <<>> THEN NoUsersSynced(rows)
    ELSE LET n == Len(users)
             st == IIQUsersLoop(SubSeq(users, 1, n - 1), rows)
             raw_data == users[n]
         IN  IF raw_data.id \in st.seen_user_ids THEN st
             ELSE LET st1 == [st EXCEPT !.seen_user_ids = @ \cup {raw_data.id}]
                  IN  IF raw_data.kind = "malformed"
                      THEN [st1 EXCEPT !.error_count = @ + 1]
                      ELSE LET st2 == [st1 EXCEPT !.batch = Append(@, raw_data),
                                                  !.success_count = @ + 1]
                           IN  IF Len(st2.batch) >= BatchSize THEN IIQCommit(st2) ELSE st2

\* IIQConnector.bulk_sync_users: the rows of iiq_users after the run and the
\* dict it returns
IIQConnector_bulk_sync_users(users, rows) ==
    LET st == IIQUsersLoop(users, rows)
        end == IF st.batch # <<>> THEN IIQCommit(st) ELSE st
    IN  [rows |-> end.rows,
         result |-> [success |-> end.success_count, errors |-> end.error_count]]

\* one call of connector.bulk_sync_users(db) on the upstream listing
google_bulk_sync_users ==
    LET run == GoogleConnector_bulk_sync_users(upstream, store.google_users)
    IN  /\ store' = [store EXCEPT !.google_users = run.rows]
        /\ returned' = [connector |-> "google", result |-> run.result,
                         again |-> returned.connector = "google"]
        /\ last' = NoResponse
        /\ UNCHANGED <<sync_logs, procs, RUNNING_PROCESSES, tasks, sync_schedules, now,
                        sync_notifications, loop_vars, upstream>>

iiq_bulk_sync_users ==
    LET run == IIQConnector_bulk_sync_users(upstream, store.iiq_users)
    IN  /\ store' = [store EXCEPT !.iiq_users = run.rows]
        /\ returned' = [connector |-> "iiq", result |-> run.result,
                         again |-> returned.connector = "iiq"]
        /\ last' = NoResponse
        /\ UNCHANGED <<sync_logs, procs, RUNNING_PROCESSES, tasks, sync_schedules, now,
                        sync_notifications, loop_vars, upstream>>

----------------------------------------------------------------------------
(* IIQConnector.bulk_sync: db.merge(asset_entry), a commit every batch *)

\* db.commit() succeeds: the database accepts every merged row, and no two
\* merged instances are new rows with the same serial number
MergeAccepted(rows, pending) ==
    /\ \A k \in DOMAIN pending : pending[k].kind = "valid"
    /\ \A j, k \in DOMAIN pending :
        (/\ pending[j].id = pending[k].id
         /\ ~\E i \in DOMAIN rows : rows[i].id = pending[j].id) => j = k

\* the local variables of bulk_sync, with the table it writes; deactive: a
\* flush failed and the session was not rolled back since
NoAssetsSynced(rows) ==
    [batch |-> <<>>, success_count |-> 0, error_count |-> 0, rows |-> rows,
     deactive |-> FALSE]

\* db.commit().  A failed flush rolls the merged instances back and leaves
\* the session's transaction inactive; only the final commit is followed by
\* db.rollback()
AssetsCommit(st, final) ==
    IF ~st.deactive /\ MergeAccepted(st.rows, st.batch)
    THEN [st EXCEPT !.rows = UpsertRows(@, st.batch), !.batch = <<>>]
    ELSE [st EXCEPT !.batch = <<>>,
                    !.deactive = ~final,
                    !.error_count = IF final THEN @ ELSE @ + 1]

\* the loop over fetch_all_assets_paginated(); batch holds the merged
\* instances the session has not committed.  db.merge loads the row by its
\* key, which raises while the session's transaction is inactive
RECURSIVE IIQAssetsLoop(_, _)
IIQAssetsLoop(assets, rows) ==
    IF assets = <<>> THEN NoAssetsSynced(rows)
    ELSE LET n == Len(assets)
             st == IIQAssetsLoop(SubSeq(assets, 1, n - 1), rows)
             raw_data == assets[n]
         IN  IF raw_data.kind = "malformed" \/ st.deactive
             THEN [st EXCEPT !.error_count = @ + 1]
             ELSE LET st2 == [st EXCEPT !.batch = Append(@, raw_data),
                                        !.success_count = @ + 1]
                  IN  IF st2.success_count % BatchSize = 0
                      THEN AssetsCommit(st2, FALSE) ELSE st2

IIQConnector_bulk_sync(assets, rows) ==
    LET st == IIQAssetsLoop(assets, rows)
        end == AssetsCommit(st, TRUE)
    IN  [rows |-> end.rows,
         result |-> [success |-> end.success_count, errors |-> end.error_count]]

\* one call of connector.bulk_sync(db) on the upstream listing, read as assets
iiq_bulk_sync ==
    LET run == IIQConnector_bulk_sync(upstream, store.iiq_assets)
    IN  /\ store' = [store EXCEPT !.iiq_assets = run.rows]
        /\ returned' = [connector |-> "iiq_assets", result |-> run.result,
                         again |-> returned.connector = "iiq_assets"]
        /\ last' = NoResponse
        /\ UNCHANGED <<sync_logs, procs, RUNNING_PROCESSES, tasks, sync_schedules, now,
                        sync_notifications, loop_vars, upstream>>

----------------------------------------------------------------------------
(* MerakiBulkSync.sync_ssids, for one wireless network *)

\* db.query(MerakiSSID).filter(network_id, ssid_number).delete()
DeleteRows(rows, number) == SelectSeq(rows, LAMBDA row : row.id # number)

\* the loop over the SSIDs of the network: delete, then db.add(record); a
\* record without "number" raises
RECURSIVE SSIDsLoop(_, _)
SSIDsLoop(ssids, rows) ==
    IF ssids = <<>> THEN NoUsersSynced(rows)
    ELSE LET n == Len(ssids)
             st == SSIDsLoop(SubSeq(ssids, 1, n - 1), rows)
             ssid == ssids[n]
         IN  IF ssid.kind = "malformed"
             THEN [st EXCEPT !.error_count = @ + 1]
             ELSE [st EXCEPT !.rows = DeleteRows(@, ssid.id),
                             !.batch = Append(@, [id |-> ssid.id, value |-> ssid.value]),
                             !.success_count = @ + 1]

MerakiBulkSync_sync_ssids(ssids, rows) ==
    LET end == SSIDsLoop(ssids, rows)
    IN  [rows |-> end.rows \o end.batch,
         result |-> [success |-> end.success_count, errors |-> end.error_count]]

\* the Meraki API lists every SSID slot of a network once, and the table
\* has no constraint that could refuse a row
SSIDListing(ssids) ==
    /\ \A k \in DOMAIN ssids : ssids[k].kind # "rejected"
    /\ \A j, k \in DOMAIN ssids : ssids[j].id = ssids[k].id => j = k

\* one call of sync_ssids(db) on the upstream listing, read as the SSIDs of
\* the one wireless network
sync_ssids ==
    /\ SSIDListing(upstream)
    /\ LET run == MerakiBulkSync_sync_ssids(upstream, store.meraki_ssids)
       IN  /\ store' = [store EXCEPT !.meraki_ssids = run.rows]
           /\ returned' = [connector |-> "meraki_ssids", result |-> run.result,
                            again |-> returned.connector = "meraki_ssids"]
    /\ last' = NoResponse
    /\ UNCHANGED <<sync_logs, procs, RUNNING_PROCESSES, tasks, sync_schedules, now,
                    sync_notifications, loop_vars, upstream>>

----------------------------------------------------------------------------
(* IIQConnector._parse_fee_data *)

\* the entries of the fee field's JSON value; a balance of 0 is a paid fee
FeeEntries ==
    [Amount : {10, 20}, Balance : {0, 5, 10},
     LastActivityDate : {"2024-01-01", "2024-02-01"}, PastDueAmount : {0, 5}]
FeeLists == UNION {[1..n -> FeeEntries] : n \in 0..MaxFees}

FeeKey(item) == <<item.Amount, item.Balance, item.LastActivityDate>>

\* _parse_fee_data that counts every entry
RECURSIVE FeeLoop_no_dedup(_)
FeeLoop_no_dedup(parsed) ==
    IF parsed = <<>>
    THEN [seen |-> {}, total_balance |-> 0, total_past_due |-> 0]
    ELSE LET n == Len(parsed)
             acc == FeeLoop_no_dedup(SubSeq(parsed, 1, n - 1))
             item == parsed[n]
         IN  IF item.Balance > 0
             THEN [seen |-> acc.seen \cup {FeeKey(item)},
                   total_balance |-> acc.total_balance + item.Balance,
                   total_past_due |-> acc.total_past_due + item.PastDueAmount]
             ELSE acc

\* the loop over the parsed entries
RECURSIVE FeeLoop(_)
FeeLoop(parsed) ==
    IF parsed = <<>>
    THEN [seen |-> {}, total_balance |-> 0, total_past_due |-> 0]
    ELSE LET n == Len(parsed)
             acc == FeeLoop(SubSeq(parsed, 1, n - 1))
             item == parsed[n]
         IN  IF item.Balance > 0 /\ FeeKey(item) \notin acc.seen
             THEN [seen |-> acc.seen \cup {FeeKey(item)},
                   total_balance |-> acc.total_balance + item.Balance,
                   total_past_due |-> acc.total_past_due + item.PastDueAmount]
             ELSE acc

\* (fee_balance, fee_past_due); None is NULL
IIQConnector_parse_fee_data(parsed) ==
    LET end == FeeLoop(parsed)
    IN  <<IF end.total_balance > 0 THEN end.total_balance ELSE NULL,
          IF end.total_past_due > 0 THEN end.total_past_due ELSE NULL>>

\* one call of _parse_fee_data on the upstream fee entries
parse_fee_data ==
    LET fees == IIQConnector_parse_fee_data(upstream)
    IN  /\ returned' = [connector |-> "fees", raw_data |-> upstream,
                         fee_balance |-> fees[1], fee_past_due |-> fees[2]]
        /\ last' = NoResponse
        /\ UNCHANGED <<sync_logs, procs, RUNNING_PROCESSES, tasks, sync_schedules, now,
                        sync_notifications, loop_vars, upstream, store>>

\* upstream lists one of its fee entries once more
duplicate_fee(k) ==
    /\ Len(upstream) <= MaxFees
    /\ upstream' = Append(upstream, upstream[k])
    /\ last' = NoResponse
    /\ UNCHANGED <<sync_logs, procs, RUNNING_PROCESSES, tasks, sync_schedules, now,
                    sync_notifications, loop_vars, store, returned>>

----------------------------------------------------------------------------
(* routers/devices.py: detect_conflicts *)

\* Strings are sequences of characters; None is the Python None
None == <<"None">>
Strings == {<<>>, <<" ">>, <<"a">>, <<"A">>, <<"b">>, <<" ", "a">>}

\* str.lower()
Lower(str) ==
    [k \in DOMAIN str |->
        IF str[k] = "A" THEN "a" ELSE IF str[k] = "B" THEN "b" ELSE str[k]]

\* str.strip()
RECURSIVE Strip(_)
Strip(str) ==
    IF str = <<>> THEN <<>>
    ELSE IF Head(str) = " " THEN Strip(Tail(str))
    ELSE IF str[Len(str)] = " " THEN Strip(SubSeq(str, 1, Len(str) - 1))
    ELSE str

\* the truth value of an optional string
Truthy(str) == str # None /\ str # <<>>
\* (value or "")
OrEmpty(str) == IF Truthy(str) THEN str ELSE <<>>

\* a query that found no row
NoRecord == [exists |-> FALSE]
\* rows of iiq_assets and google_devices, with the columns detect_conflicts reads
IIQRecords ==
    {NoRecord} \cup
    [exists : {TRUE}, asset_tag : Strings \cup {None},
     serial_number : Strings \ {<<>>},      \* the primary key
     assigned_user_email : Strings \cup {None}]
GoogleRecords ==
    {NoRecord} \cup
    [exists : {TRUE},
     recent_users : UNION {[1..n -> Strings \cup {None}] : n \in 0..2}]

Conflict(id) == [id |-> id, severity |-> "warning"]

\* Conflict 1 with a comparison of the strings as they are
asset_tag_serial_match_exact(iiq_record) ==
    IF /\ iiq_record.exists
       /\ Truthy(iiq_record.asset_tag)
       /\ Truthy(iiq_record.serial_number)
       /\ iiq_record.asset_tag = iiq_record.serial_number
    THEN <<Conflict("asset_tag_serial_match")>>
    ELSE <<>>

\* Conflict 1: Asset Tag = Serial Number
asset_tag_serial_match(iiq_record) ==
    IF /\ iiq_record.exists
       /\ Truthy(iiq_record.asset_tag)
       /\ Truthy(iiq_record.serial_number)
       /\ Lower(Strip(iiq_record.asset_tag)) = Lower(Strip(iiq_record.serial_number))
    THEN <<Conflict("asset_tag_serial_match")>>
    ELSE <<>>

\* Conflict 2 with a case-sensitive comparison
owner_mismatch_case_sensitive(iiq_record, google_record) ==
    IF iiq_record.exists /\ google_record.exists
    THEN LET iiq_email == Strip(OrEmpty(iiq_record.assigned_user_email))
             google_users == google_record.recent_users
         IN  IF iiq_email # <<>> /\ Len(google_users) > 0
             THEN LET google_recent_user == Strip(OrEmpty(google_users[1]))
                  IN  IF google_recent_user # <<>> /\ iiq_email # google_recent_user
                      THEN <<Conflict("owner_mismatch")>>
                      ELSE <<>>
             ELSE <<>>
    ELSE <<>>

\* Conflict 2: Owner Mismatch.  recent_users is a list; the column's None
\* reads as the empty list (recent_users or [])
owner_mismatch(iiq_record, google_record) ==
    IF iiq_record.exists /\ google_record.exists
    THEN LET iiq_email == Lower(Strip(OrEmpty(iiq_record.assigned_user_email)))
             google_users == google_record.recent_users
         IN  IF iiq_email # <<>> /\ Len(google_users) > 0
             THEN LET google_recent_user == Lower(Strip(OrEmpty(google_users[1])))
                  IN  IF google_recent_user # <<>> /\ iiq_email # google_recent_user
                      THEN <<Conflict("owner_mismatch")>>
                      ELSE <<>>
             ELSE <<>>
    ELSE <<>>

detect_conflicts(iiq_record, google_record) ==
    asset_tag_serial_match(iiq_record) \o owner_mismatch(iiq_record, google_record)

\* one call of detect_conflicts on the two records
detect ==
    /\ returned' = [connector |-> "conflicts",
                     conflicts |-> detect_conflicts(upstream.iiq_record,
                                                    upstream.google_record)]
    /\ last' = NoResponse
    /\ UNCHANGED <<sync_logs, procs, RUNNING_PROCESSES, tasks, sync_schedules, now,
                    sync_notifications, loop_vars, upstream, store>>

(* routers/devices.py: get_device_360 *)

\* str.upper()
Upper(str) ==
    [k \in DOMAIN str |->
        IF str[k] = "a" THEN "A" ELSE IF str[k] = "b" THEN "B" ELSE str[k]]

NotSeparator(c) == c \notin {":", "-"}
\* mac.strip().lower().replace(":", "").replace("-", "")
CleanMac(mac) == SelectSeq(Lower(Strip(mac)), NotSeparator)

\* the {query} path parameter: the serial number, the serial number in lower
\* case, the asset tag, and an identifier no system knows
Queries == {<<"A">>, <<"a">>, <<"b">>, <<"x">>}

\* what the three upstream systems hold about the one device: the IIQ asset
\* (IIQ never reports a MAC address), the Chromebook, the wireless client
UpstreamAssets ==
    {NoRecord} \cup
    [exists : {TRUE}, serial_number : {<<"A">>}, asset_tag : {<<"b">>, <<"A">>},
     assigned_user_email : {<<"a">>, None}]
UpstreamChromebooks ==
    {NoRecord} \cup
    [exists : {TRUE}, serial_number : {<<"A">>},
     mac_address : {None, <<"A", ":", "b">>},
     recent_users : {<<>>, << <<"b">> >>}]
UpstreamClients ==
    {NoRecord} \cup
    [exists : {TRUE}, mac_address : {<<"a", "b">>}, ap_name : {"ap1"},
     last_seen : {NULL, 3}]

\* the device tables before the request: empty, or rows of an earlier sync
DeviceStores ==
    {[iiq_assets |-> <<>>, google_devices |-> <<>>, network_cache |-> <<>>],
     [iiq_assets |-> <<[exists |-> TRUE, serial_number |-> <<"A">>,
                        asset_tag |-> <<"b">>, assigned_user_email |-> <<"b">>,
                        mac_address |-> <<"a", "b">>]>>,
      google_devices |-> <<>>,
      network_cache |-> <<[exists |-> TRUE, mac_address |-> <<"a", "b">>,
                           last_ap_name |-> "ap0", last_seen |-> 1]>>]}

\* how one point sync goes: the upstream answer is used, the call raises
\* before it writes (missing configuration, unexpected payload), or the
\* commit fails
SyncOutcomes == [iiq : {"ok", "raised", "db_error"},
                 google : {"ok", "raised", "db_error"},
                 meraki : {"ok", "raised", "db_error"}]

\* db.query(Table).filter(Table.key == value).first()
FirstRow(rows, key, value) ==
    IF \E k \in DOMAIN rows : rows[k][key] = value
    THEN rows[CHOOSE k \in DOMAIN rows :
                /\ rows[k][key] = value
                /\ \A j \in 1..(k - 1) : rows[j][key] # value]
    ELSE NoRecord

\* db.merge(entry): update the row with the entry's primary key, or insert
MergeRow(rows, key, r) ==
    IF \E k \in DOMAIN rows : rows[k][key] = r[key]
    THEN [k \in DOMAIN rows |-> IF rows[k][key] = r[key] THEN r ELSE rows[k]]
    ELSE Append(rows, r)

\* IIQConnector.sync_record: fetch by serial number, then by asset tag;
\* merge into iiq_assets, leaving the columns the entry does not set
IIQConnector_sync_record(st, identifier, outcome) ==
    LET raw_data == IF /\ upstream.iiq.exists
                       /\ \/ upstream.iiq.serial_number = identifier
                          \/ upstream.iiq.asset_tag = identifier
                    THEN upstream.iiq ELSE NoRecord
        existing == IF raw_data.exists
                    THEN FirstRow(st.iiq_assets, "serial_number", raw_data.serial_number)
                    ELSE NoRecord
        asset_entry == [exists |-> TRUE,
                        serial_number |-> raw_data.serial_number,
                        asset_tag |-> raw_data.asset_tag,
                        assigned_user_email |-> raw_data.assigned_user_email,
                        mac_address |-> IF existing.exists THEN existing.mac_address
                                        ELSE None]
    IN  IF outcome = "raised" THEN [status |-> "raised", serial |-> None, store |-> st]
        ELSE IF ~raw_data.exists THEN [status |-> "error", serial |-> None, store |-> st]
        ELSE IF outcome = "db_error" THEN [status |-> "error", serial |-> None, store |-> st]
        ELSE [status |-> "success", serial |-> raw_data.serial_number,
              store |-> [st EXCEPT !.iiq_assets = MergeRow(@, "serial_number", asset_entry)]]

\* GoogleConnector.sync_record: the directory is searched for
\* serial.strip().upper(); the device found is merged into google_devices
GoogleConnector_sync_record(st, serial, outcome) ==
    LET raw_data == IF /\ upstream.google.exists
                       /\ upstream.google.serial_number = Upper(Strip(serial))
                    THEN upstream.google ELSE NoRecord
    IN  IF outcome = "raised" THEN [status |-> "raised", store |-> st]
        ELSE IF ~raw_data.exists THEN [status |-> "error", store |-> st]
        ELSE IF outcome = "db_error" THEN [status |-> "error", store |-> st]
        ELSE [status |-> "success",
              store |-> [st EXCEPT !.google_devices = MergeRow(@, "serial_number", raw_data)]]

\* MerakiConnector.sync_record: an existing network_cache row is updated and
\* keeps its last_seen when the new one is not valid; a new row is created
\* only with a valid last_seen
MerakiConnector_sync_record(st, mac, outcome) ==
    LET raw_data == IF /\ upstream.meraki.exists
                       /\ upstream.meraki.mac_address = CleanMac(mac)
                    THEN upstream.meraki ELSE NoRecord
        clean_mac == CleanMac(mac)
        existing == FirstRow(st.network_cache, "mac_address", clean_mac)
        cache_entry == [exists |-> TRUE, mac_address |-> clean_mac,
                        last_ap_name |-> raw_data.ap_name,
                        last_seen |-> IF raw_data.last_seen # NULL THEN raw_data.last_seen
                                      ELSE existing.last_seen]
    IN  IF outcome = "raised" THEN [status |-> "raised", store |-> st]
        ELSE IF ~raw_data.exists THEN [status |-> "error", store |-> st]
        ELSE IF ~existing.exists /\ raw_data.last_seen = NULL
             THEN [status |-> "warning", store |-> st]
        ELSE IF outcome = "db_error" THEN [status |-> "error", store |-> st]
        ELSE [status |-> "success",
              store |-> [st EXCEPT !.network_cache = MergeRow(@, "mac_address", cache_entry)]]

\* a connector call that is not wrapped: the exception leaves the handler
TryExcept_reraise(result) == result

\* try: ... sync_record(...) except Exception as e: print(...)
TryExcept(result) ==
    IF result.status = "raised" THEN [result EXCEPT !.status = "caught"] ELSE result

\* GET /api/device/{query}.  mac_address of google_devices stands for both
\* of its MAC columns; meraki_clients, which only the bulk sync writes, is
\* empty.  code 500 is an exception that left the handler.
get_device_360(query0, outcome) ==
    \E iiq \in {TryExcept(IIQConnector_sync_record(store, query0, outcome.iiq))} :
    \E query \in {IF iiq.status = "success" THEN iiq.serial ELSE query0} :
    \E google \in {TryExcept(GoogleConnector_sync_record(iiq.store, query, outcome.google))} :
    \E db \in {google.store} :
    \E iiq_record \in {IF FirstRow(db.iiq_assets, "serial_number", query).exists
                       THEN FirstRow(db.iiq_assets, "serial_number", query)
                       ELSE FirstRow(db.iiq_assets, "asset_tag", query)} :
    \E target_serial \in {IF iiq_record.exists THEN iiq_record.serial_number ELSE query} :
    \E google_record \in {FirstRow(db.google_devices, "serial_number", target_serial)} :
    \E target_mac \in {IF iiq_record.exists /\ Truthy(iiq_record.mac_address)
                       THEN iiq_record.mac_address
                       ELSE IF google_record.exists /\ Truthy(google_record.mac_address)
                       THEN google_record.mac_address
                       ELSE None} :
    \E meraki \in {IF Truthy(target_mac)
                   THEN TryExcept(MerakiConnector_sync_record(db, target_mac,
                                                              outcome.meraki))
                   ELSE [status |-> "skipped", store |-> db]} :
    \E network_record \in {IF Truthy(target_mac)
                           THEN FirstRow(meraki.store.network_cache, "mac_address",
                                         CleanMac(target_mac))
                           ELSE NoRecord} :
        /\ IF iiq.status = "raised"
           THEN /\ store' = store
                /\ returned' = [connector |-> "device", code |-> 500]
           ELSE IF google.status = "raised"
           THEN /\ store' = iiq.store
                /\ returned' = [connector |-> "device", code |-> 500]
           ELSE IF meraki.status = "raised"
           THEN /\ store' = db
                /\ returned' = [connector |-> "device", code |-> 500]
           ELSE /\ store' = meraki.store
                /\ returned' = [connector |-> "device", code |-> 200,
                                syncs |-> [iiq |-> iiq.status, google |-> google.status,
                                           meraki |-> meraki.status],
                                serial |-> target_serial, target_mac |-> target_mac,
                                sources |-> [iiq |-> iiq_record, google |-> google_record,
                                             meraki |-> network_record],
                                conflicts |-> detect_conflicts(iiq_record, google_record)]
        /\ last' = NoResponse
        /\ UNCHANGED <<sync_logs, procs, RUNNING_PROCESSES, tasks, sync_schedules, now,
                        sync_notifications, loop_vars, upstream>>

(* Lookup caches: IIQConnector._get_location_name and location_cache,
   MerakiConnector.sync_record and network_cache *)

ZeroLocationId == "00000000-0000-0000-0000-000000000000"
\* "" stands for a missing LocationId
LocationIds == {"", ZeroLocationId, "L1", "L2"}
\* the function returns None
NoLocation == "None"
\* what GET /locations/{id} answers: a name, a location without a name, or a
\* failed request
LocationAnswers == {"n1", "n2", "noname", "error"}

\* _get_location_name that asks the API whether or not the id is cached; the
\* second insert of a cached id fails and is caught
get_location_name_uncached(cache, location_id, answer) ==
    IF location_id = "" \/ location_id = ZeroLocationId
    THEN [name |-> NoLocation, cache |-> cache, api_calls |-> 0]
    ELSE IF answer \in {"noname", "error"}
              \/ FirstRow(cache, "location_id", location_id).exists
    THEN [name |-> NoLocation, cache |-> cache, api_calls |-> 1]
    ELSE [name |-> answer, api_calls |-> 1,
          cache |-> Append(cache, [exists |-> TRUE, location_id |-> location_id,
                                   name |-> answer])]

\* IIQConnector._get_location_name(db, location_id); answer: what the API
\* would answer if it were asked
get_location_name(cache, location_id, answer) ==
    LET cached == FirstRow(cache, "location_id", location_id)
    IN  IF location_id = "" \/ location_id = ZeroLocationId
        THEN [name |-> NoLocation, cache |-> cache, api_calls |-> 0]
        ELSE IF cached.exists
        THEN [name |-> cached.name, cache |-> cache, api_calls |-> 0]
        ELSE IF answer \in {"noname", "error"}
        THEN [name |-> NoLocation, cache |-> cache, api_calls |-> 1]
        ELSE [name |-> answer, api_calls |-> 1,
              cache |-> Append(cache, [exists |-> TRUE, location_id |-> location_id,
                                       name |-> answer])]

\* one location lookup
location_lookup(location_id, answer) ==
    LET run == get_location_name(store.location_cache, location_id, answer)
    IN  /\ store' = [store EXCEPT !.location_cache = run.cache]
        /\ returned' = [connector |-> "location", key |-> location_id,
                         name |-> run.name, api_calls |-> run.api_calls,
                         answer |-> answer]
        /\ last' = NoResponse
        /\ UNCHANGED <<sync_logs, procs, RUNNING_PROCESSES, tasks, sync_schedules, now,
                        sync_notifications, loop_vars, upstream>>

\* the wireless client as Meraki reports it at different times
RoamingClients ==
    {NoRecord} \cup
    [exists : {TRUE}, mac_address : {<<"a", "b">>}, ap_name : {"ap1", "ap2"},
     last_seen : {NULL, 3, 4}]
MacInputs == {<<"A", ":", "b">>, <<"a", "b">>, <<"b">>}

\* the client moves to another access point, is seen again, or disappears
client_moves(client) ==
    /\ client # upstream.meraki
    /\ upstream' = [upstream EXCEPT !.meraki = client]
    /\ returned' = NoReturn
    /\ last' = NoResponse
    /\ UNCHANGED <<sync_logs, procs, RUNNING_PROCESSES, tasks, sync_schedules, now,
                    sync_notifications, loop_vars, store>>

\* one MerakiConnector.sync_record(db, mac): fetch_client_by_mac asks the
\* Meraki API before network_cache is read
network_lookup(mac) ==
    LET run == MerakiConnector_sync_record(store, mac, "ok")
    IN  /\ store' = run.store
        /\ returned' = [connector |-> "network", key |-> CleanMac(mac),
                         status |-> run.status, api_calls |-> 1]
        /\ last' = NoResponse
        /\ UNCHANGED <<sync_logs, procs, RUNNING_PROCESSES, tasks, sync_schedules, now,
                        sync_notifications, loop_vars, upstream>>

(* The point lookups of the IIQ and Google connectors *)

\* how the request of a lookup goes: answered with 2xx, no connection or a
\* timeout, or answered with another status (raise_for_status raises)
Transports == {"ok", "unreachable", "status"}

\* IIQConnector.fetch_asset_by_serial: the first item of the answer, None when
\* the answer has no item, None when the request raised
fetch_asset_by_serial(serial, transport) ==
    IF transport # "ok" THEN NoRecord
    ELSE IF upstream.iiq.exists /\ upstream.iiq.serial_number = serial
    THEN upstream.iiq
    ELSE NoRecord

\* IIQConnector.fetch_asset_by_tag
fetch_asset_by_tag(tag, transport) ==
    IF transport # "ok" THEN NoRecord
    ELSE IF upstream.iiq.exists /\ upstream.iiq.asset_tag = tag
    THEN upstream.iiq
    ELSE NoRecord

\* GoogleConnector.fetch_device_by_serial
fetch_device_by_serial(serial, transport) ==
    IF serial = <<>> THEN NoRecord
    ELSE IF transport # "ok" THEN NoRecord
    ELSE IF upstream.google.exists /\ upstream.google.serial_number = Upper(Strip(serial))
    THEN upstream.google
    ELSE NoRecord

\* the head of IIQConnector.sync_record: by serial number, then by asset tag,
\* and the answer when neither lookup returned a record
iiq_lookup(identifier, transport) ==
    /\ \E by_serial \in {fetch_asset_by_serial(identifier, transport)} :
       \E raw_data \in {IF by_serial.exists THEN by_serial
                        ELSE fetch_asset_by_tag(identifier, transport)} :
            returned' = [connector |-> "lookup", source |-> "iiq",
                         identifier |-> identifier, transport |-> transport,
                         raw_data |-> raw_data,
                         status |-> IF raw_data.exists THEN "found" ELSE "error",
                         message |-> IF raw_data.exists THEN "NULL"
                                     ELSE "Asset not found in IIQ for query"]
    /\ last' = NoResponse
    /\ UNCHANGED <<sync_logs, procs, RUNNING_PROCESSES, tasks, sync_schedules, now,
                    sync_notifications, loop_vars, upstream, store>>

\* the head of GoogleConnector.sync_record
google_lookup(serial, transport) ==
    /\ \E raw_data \in {fetch_device_by_serial(serial, transport)} :
            returned' = [connector |-> "lookup", source |-> "google",
                         identifier |-> serial, transport |-> transport,
                         raw_data |-> raw_data,
                         status |-> IF raw_data.exists THEN "found" ELSE "error",
                         message |-> IF raw_data.exists THEN "NULL"
                                     ELSE "Device not found in Google Admin"]
    /\ last' = NoResponse
    /\ UNCHANGED <<sync_logs, procs, RUNNING_PROCESSES, tasks, sync_schedules, now,
                    sync_notifications, loop_vars, upstream, store>>

(* IIQConnector.fetch_all_assets_paginated and fetch_all_users_paginated:
   the same loop over the pages of two endpoints *)

\* one answer of the endpoint: the request failed (transport error, non-2xx
\* status, invalid JSON), or a page with its items and the TotalRows of its
\* Paging object, which may be missing (0) or null
PageResponses ==
    {[ok |-> FALSE]} \cup
    [ok : {TRUE}, items : 0..MaxItems, TotalRows : {NULL} \cup 0..MaxRows]

\* the generator before its first request
Generator(endpoint) ==
    [connector |-> "pages", endpoint |-> endpoint, pc |-> "request",
     page_index |-> 0, total_fetched |-> 0, total_rows |-> NULL, first |-> TRUE,
     requested |-> <<>>, stop |-> "none"]

\* a loop that asks for the same page again
NextPage_same(page_index) == page_index

\* page_index += 1
NextPage(page_index) == page_index + 1

\* one iteration of the while loop: the request, the yields, the checks.
\* Comparing total_fetched with a null TotalRows raises, which the loop's
\* except clause catches like a failed request.
FetchPage(g, resp) ==
    LET asked == [g EXCEPT !.requested = Append(@, g.page_index)]
    IN  IF ~resp.ok THEN [asked EXCEPT !.pc = "done", !.stop = "failed"]
        ELSE IF resp.items = 0 THEN [asked EXCEPT !.pc = "done", !.stop = "empty"]
        ELSE LET total_rows == IF g.first THEN resp.TotalRows ELSE g.total_rows
                 got == [asked EXCEPT !.first = FALSE, !.total_rows = total_rows,
                                      !.total_fetched = @ + resp.items]
             IN  IF total_rows = NULL
                 THEN [got EXCEPT !.pc = "done", !.stop = "failed"]
                 ELSE IF got.total_fetched >= total_rows
                 THEN [got EXCEPT !.pc = "done", !.stop = "total"]
                 ELSE [got EXCEPT !.page_index = NextPage(@)]

\* the consumer's for loop pulls the next page of assets
fetch_all_assets_paginated(resp) ==
    /\ returned.connector = "pages" /\ returned.endpoint = "assets"
    /\ returned.pc = "request"
    /\ returned' = FetchPage(returned, resp)
    /\ last' = NoResponse
    /\ UNCHANGED <<sync_logs, procs, RUNNING_PROCESSES, tasks, sync_schedules, now,
                    sync_notifications, loop_vars, upstream, store>>

\* the consumer's for loop pulls the next page of users
fetch_all_users_paginated(resp) ==
    /\ returned.connector = "pages" /\ returned.endpoint = "users"
    /\ returned.pc = "request"
    /\ returned' = FetchPage(returned, resp)
    /\ last' = NoResponse
    /\ UNCHANGED <<sync_logs, procs, RUNNING_PROCESSES, tasks, sync_schedules, now,
                    sync_notifications, loop_vars, upstream, store>>

\* the records the generator yielded, all of them well-formed
Yielded(g) == [k \in 1..g.total_fetched |-> [id |-> k, kind |-> "valid", value |-> "a"]]

\* what bulk_sync or bulk_sync_users returns for the stream the generator
\* delivered, into empty tables
StreamResult(g) ==
    IF g.endpoint = "assets"
    THEN IIQConnector_bulk_sync(Yielded(g), <<>>).result
    ELSE IIQConnector_bulk_sync_users(Yielded(g), <<>>).result

\* connector.bulk_sync(db) of a domain without devices
NoDevices == [success |-> 0, errors |-> 0]

----------------------------------------------------------------------------
(* scripts/iiq_bulk_sync.py *)

iiq_main_start(p) ==
    /\ procs[p].source = "iiq" /\ procs[p].pc = "start"
    /\ CreateLog(p)
    /\ last' = NoResponse
    /\ UNCHANGED <<RUNNING_PROCESSES, tasks, other_vars>>

\* outs: what the sync functions called so far returned; fatal: the exception
\* that left the try block (connector set-up, cache_ticket_stats,
\* cache_user_stats), or NotRaised
iiq_main_finish(p, outs, fatal) ==
    /\ procs[p].source = "iiq" /\ procs[p].pc = "try"
    /\ LET id == procs[p].log
           t == IIQTotals(outs)
       IN  IF ~IsRaised(fatal)
           THEN Finish(p, "success", t.records, t.failed,
                       sync_logs[id].error_message, sync_logs[id].error_details)
           ELSE Finish(p, "error", t.records, t.failed, ErrorMessage(fatal.e),
                       sync_logs[id].error_details)
    /\ last' = NoResponse
    /\ UNCHANGED <<RUNNING_PROCESSES, tasks, other_vars>>

----------------------------------------------------------------------------
(* scripts/google_bulk_sync.py *)

\* config_ok = FALSE: admin email or credentials missing, sys.exit(1)
google_main_start(p, config_ok) ==
    /\ procs[p].source = "google" /\ procs[p].pc = "start"
    /\ IF config_ok
       THEN CreateLog(p)
       ELSE /\ procs' = [procs EXCEPT ![p].pc = "exited"]
            /\ UNCHANGED sync_logs
    /\ last' = NoResponse
    /\ UNCHANGED <<RUNNING_PROCESSES, tasks, other_vars>>

\* device_result, user_result: what bulk_sync and bulk_sync_users return,
\* or Raised
google_main_finish(p, device_result, user_result) ==
    /\ procs[p].source = "google" /\ procs[p].pc = "try"
    /\ IsRaised(device_result) => IsRaised(user_result)
    /\ LET id == procs[p].log
           records1 == IF IsRaised(device_result) THEN 0
                       ELSE Get(device_result, "success", 0)
           errors1 == IF IsRaised(device_result) THEN 0
                      ELSE Get(device_result, "errors", 0)
       IN  IF IsRaised(device_result)
           THEN Finish(p, "error", 0, 0, ErrorMessage(device_result.e),
                       sync_logs[id].error_details)
           ELSE IF IsRaised(user_result)
           THEN Finish(p, "error", records1, errors1, ErrorMessage(user_result.e),
                       sync_logs[id].error_details)
           ELSE Finish(p, "success",
                       records1 + Get(user_result, "success", 0),
                       errors1 + Get(user_result, "errors", 0),
                       sync_logs[id].error_message,
                       Get(user_result, "error_details", <<>>))
    /\ last' = NoResponse
    /\ UNCHANGED <<RUNNING_PROCESSES, tasks, other_vars>>

----------------------------------------------------------------------------
(* scripts/meraki_bulk_sync.py *)

\* config_ok = FALSE: API key or organization id missing, sys.exit(1)
meraki_main_start(p, config_ok) ==
    /\ procs[p].source = "meraki" /\ procs[p].pc = "start"
    /\ IF config_ok
       THEN CreateLog(p)
       ELSE /\ procs' = [procs EXCEPT ![p].pc = "exited"]
            /\ UNCHANGED sync_logs
    /\ last' = NoResponse
    /\ UNCHANGED <<RUNNING_PROCESSES, tasks, other_vars>>

meraki_main_finish(p, result) ==
    /\ procs[p].source = "meraki" /\ procs[p].pc = "try"
    /\ LET id == procs[p].log
       IN  IF IsRaised(result)
           THEN Finish(p, "error", sync_logs[id].records_processed,
                       sync_logs[id].records_failed, ErrorMessage(result.e),
                       sync_logs[id].error_details)
           ELSE Finish(p, IF result["total_errors"] = 0 THEN "success" ELSE "partial",
                       result["total_success"], result["total_errors"],
                       sync_logs[id].error_message, <<>>)
    /\ last' = NoResponse
    /\ UNCHANGED <<RUNNING_PROCESSES, tasks, other_vars>>

----------------------------------------------------------------------------
(* The scripts install no signal handler *)

\* a signal from outside the backend (kill, the OOM killer, a shutdown) ends
\* the script's process: no except or finally clause runs, the row stays as
\* the process left it
process_killed(p) ==
    /\ Alive(p)
    /\ procs' = [procs EXCEPT ![p].pc = "exited"]
    /\ last' = NoResponse
    /\ UNCHANGED <<sync_logs, RUNNING_PROCESSES, tasks, other_vars>>

----------------------------------------------------------------------------
(* Schedules and the scheduler *)

Elems(seq) == {seq[i] : i \in DOMAIN seq}

\* sorted(list(set(hours)))
RECURSIVE SortedList(_)
SortedList(S) ==
    IF S = {} THEN <<>>
    ELSE LET m == CHOOSE x \in S : \A y \in S : x <= y
         IN  <<m>> \o SortedList(S \ {m})

\* update_schedule that does not validate the hours
update_schedule_unvalidated(source, enabled, hours_given, hours) ==
    /\ ~hours_given => hours = <<>>
    /\ IF source \notin Sources THEN
            /\ last' = [Response("update_schedule", source, 400) EXCEPT !.hours = hours]
            /\ UNCHANGED sync_schedules
       ELSE IF FALSE THEN
            /\ last' = [Response("update_schedule", source, 400) EXCEPT !.hours = hours]
            /\ UNCHANGED sync_schedules
       ELSE
            LET sorted == SortedList(Elems(hours))
                schedule == sync_schedules[source]
            IN  /\ sync_schedules' = [sync_schedules EXCEPT ![source] =
                        IF schedule.present
                        THEN [present |-> TRUE,
                              enabled |-> IF enabled # "None" THEN enabled = "True"
                                          ELSE schedule.enabled,
                              hours |-> IF hours_given THEN sorted ELSE schedule.hours]
                        ELSE [present |-> TRUE,
                              enabled |-> IF enabled # "None" THEN enabled = "True" ELSE TRUE,
                              hours |-> IF hours_given THEN sorted ELSE <<>>]]
                /\ last' = [Response("update_schedule", source, 200) EXCEPT !.hours = hours]
    /\ UNCHANGED <<sync_logs, procs, RUNNING_PROCESSES, tasks, now,
                    sync_notifications, loop_vars, data_vars>>

\* PUT /schedules/{source}; enabled "None" and hours_given = FALSE stand for
\* the optional fields being absent from the request body
update_schedule(source, enabled, hours_given, hours) ==
    /\ ~hours_given => hours = <<>>
    /\ IF source \notin Sources THEN
            /\ last' = [Response("update_schedule", source, 400) EXCEPT !.hours = hours]
            /\ UNCHANGED sync_schedules
       ELSE IF hours_given /\ ~(\A i \in DOMAIN hours : 0 <= hours[i] /\ hours[i] <= 23) THEN
            /\ last' = [Response("update_schedule", source, 400) EXCEPT !.hours = hours]
            /\ UNCHANGED sync_schedules
       ELSE
            LET sorted == SortedList(Elems(hours))
                schedule == sync_schedules[source]
            IN  /\ sync_schedules' = [sync_schedules EXCEPT ![source] =
                        IF schedule.present
                        THEN [present |-> TRUE,
                              enabled |-> IF enabled # "None" THEN enabled = "True"
                                          ELSE schedule.enabled,
                              hours |-> IF hours_given THEN sorted ELSE schedule.hours]
                        ELSE [present |-> TRUE,
                              enabled |-> IF enabled # "None" THEN enabled = "True" ELSE TRUE,
                              hours |-> IF hours_given THEN sorted ELSE <<>>]]
                /\ last' = [Response("update_schedule", source, 200) EXCEPT !.hours = hours]
    /\ UNCHANGED <<sync_logs, procs, RUNNING_PROCESSES, tasks, now,
                    sync_notifications, loop_vars, data_vars>>

\* check_and_run_scheduled_syncs without the "top of the hour" check
check_and_run_scheduled_syncs_any_minute(hour, minute) ==
    LET due == {s \in Sources :
                    /\ sync_schedules[s].present
                    /\ sync_schedules[s].enabled
                    /\ hour \in Elems(sync_schedules[s].hours)
                    /\ ~HasRunning(s)}
    IN  /\ \A s \in due : tasks[<<s, "scheduled">>] < MaxPending
        /\ tasks' = [k \in TaskKeys |->
                        IF k[2] = "scheduled" /\ k[1] \in due
                        THEN tasks[k] + 1 ELSE tasks[k]]
        /\ last' = [Response("check_and_run_scheduled_syncs", "all", 0)
                        EXCEPT !.started = due, !.hour = hour, !.minute = minute]
        /\ UNCHANGED <<sync_logs, procs, RUNNING_PROCESSES, sync_schedules, now,
                        sync_notifications, data_vars>>

\* one call of check_and_run_scheduled_syncs; hour and minute are
\* local_now.hour and local_now.minute.  The caller says where the loop goes.
check_and_run_scheduled_syncs(hour, minute) ==
    LET due == IF minute # 0 THEN {}
               ELSE {s \in Sources :
                        /\ sync_schedules[s].present
                        /\ sync_schedules[s].enabled
                        /\ hour \in Elems(sync_schedules[s].hours)
                        /\ ~HasRunning(s)}
    IN  /\ \A s \in due : tasks[<<s, "scheduled">>] < MaxPending
        /\ tasks' = [k \in TaskKeys |->
                        IF k[2] = "scheduled" /\ k[1] \in due
                        THEN tasks[k] + 1 ELSE tasks[k]]
        /\ last' = [Response("check_and_run_scheduled_syncs", "all", 0)
                        EXCEPT !.started = due, !.hour = hour, !.minute = minute]
        /\ UNCHANGED <<sync_logs, procs, RUNNING_PROCESSES, sync_schedules, now,
                        sync_notifications, data_vars>>

\* db.query(SyncNotification).filter(sync_log_id == id).first()
Notified(id) ==
    \E n \in DOMAIN sync_notifications : sync_notifications[n].sync_log_id = id

\* SyncNotification(sync_log_id=..., acknowledged=False, created_at=utcnow())
SyncNotification(id) ==
    [sync_log_id |-> id, acknowledged |-> FALSE, created_at |-> now]

\* create_notification_for_failures without the look-up of an existing
\* notification
create_notification_for_failures_unchecked ==
    LET cutoff == now - NotifyWindow
        failed_syncs == {i \in DOMAIN sync_logs :
                            /\ sync_logs[i].status \in {"error", "partial"}
                            /\ sync_logs[i].completed_at # NULL
                            /\ sync_logs[i].completed_at >= cutoff}
        new == SortedList(failed_syncs)
    IN  sync_notifications' =
            sync_notifications \o [k \in 1..Len(new) |-> SyncNotification(new[k])]

\* create_notification_for_failures: rows that ended 'error' or 'partial' in
\* the last two minutes and have no notification get one
create_notification_for_failures ==
    LET cutoff == now - NotifyWindow
        failed_syncs == {i \in DOMAIN sync_logs :
                            /\ sync_logs[i].status \in {"error", "partial"}
                            /\ sync_logs[i].completed_at # NULL
                            /\ sync_logs[i].completed_at >= cutoff}
        new == SortedList({i \in failed_syncs : ~Notified(i)})
    IN  sync_notifications' =
            sync_notifications \o [k \in 1..Len(new) |-> SyncNotification(new[k])]

\* scheduler_loop, first half of an iteration
scheduler_loop_check(hour, minute) ==
    /\ sched_pc = "check"
    /\ check_and_run_scheduled_syncs(hour, minute)
    /\ sched_pc' = "notify"
    /\ UNCHANGED wake

\* scheduler_loop, second half of an iteration, up to asyncio.sleep(60)
scheduler_loop_notify ==
    /\ sched_pc = "notify"
    /\ create_notification_for_failures
    /\ sched_pc' = "sleep"
    /\ wake' = now + SleepMinutes
    /\ last' = NoResponse
    /\ UNCHANGED <<sync_logs, procs, RUNNING_PROCESSES, tasks, sync_schedules, now,
                    data_vars>>

\* asyncio.sleep(60) returns
scheduler_loop_sleep ==
    /\ sched_pc = "sleep"
    /\ now >= wake
    /\ sched_pc' = "check"
    /\ last' = NoResponse
    /\ UNCHANGED <<sync_logs, procs, RUNNING_PROCESSES, tasks, sync_schedules, now,
                    sync_notifications, wake, data_vars>>

\* a minute passes.  The sleep ends when it is due, and the iteration that
\* follows reaches its notification query within MaxTickDelay minutes.
clock_tick ==
    /\ now < MaxTime
    /\ IF sched_pc = "sleep" THEN now < wake ELSE now < wake + MaxTickDelay
    /\ now' = now + 1
    /\ last' = NoResponse
    /\ UNCHANGED <<sync_logs, procs, RUNNING_PROCESSES, tasks, sync_schedules,
                    sync_notifications, loop_vars, data_vars>>

----------------------------------------------------------------------------
\* The orchestrator: manual triggers, cancels, cron runs and the scripts
Next ==
    \/ \E s \in Requested : trigger_sync(s)
    \/ trigger_all_syncs
    \/ \E s \in Requested, graceful \in BOOLEAN : cancel_sync(s, graceful)
    \/ \E s \in Sources : cron_run(s)
    \/ \E k \in TaskKeys, ok \in BOOLEAN : run_sync_script(k[1], k[2], ok)
    \/ \E p \in DOMAIN procs : iiq_main_start(p)
    \/ \E p \in DOMAIN procs, outs \in IIQRuns, fatal \in {NotRaised, Raised} :
            iiq_main_finish(p, outs, fatal)
    \/ \E p \in DOMAIN procs, ok \in BOOLEAN : google_main_start(p, ok)
    \/ \E p \in DOMAIN procs, d \in Outcomes, u \in Outcomes : google_main_finish(p, d, u)
    \/ \E p \in DOMAIN procs, ok \in BOOLEAN : meraki_main_start(p, ok)
    \/ \E p \in DOMAIN procs, r \in MerakiOutcomes : meraki_main_finish(p, r)

Spec == Init /\ [][Next]_vars

\* The scheduler: schedule updates, scheduler ticks and the scripts, whose
\* connector calls all succeed or raise
SchedulerNext ==
    \/ \E s \in Sources, e \in EnabledInputs, h \in HoursInputs :
            update_schedule(s, e, TRUE, h)
    \/ \E t \in TickInputs :
            check_and_run_scheduled_syncs(t[1], t[2]) /\ UNCHANGED loop_vars
    \/ \E k \in TaskKeys, ok \in BOOLEAN : run_sync_script(k[1], k[2], ok)
    \/ \E p \in DOMAIN procs : iiq_main_start(p)
    \/ \E p \in DOMAIN procs, fatal \in {NotRaised, Raised} :
            iiq_main_finish(p, <<Succeeded>>, fatal)
    \/ \E p \in DOMAIN procs, ok \in BOOLEAN : google_main_start(p, ok)
    \/ \E p \in DOMAIN procs, d \in {Succeeded, Raised}, u \in {Succeeded, Raised} :
            google_main_finish(p, d, u)
    \/ \E p \in DOMAIN procs, ok \in BOOLEAN : meraki_main_start(p, ok)
    \/ \E p \in DOMAIN procs, r \in {MerakiSucceeded, Raised} : meraki_main_finish(p, r)

SchedulerSpec == Init /\ [][SchedulerNext]_vars

\* Schedule management alone: every request PUT /schedules/{source} can carry
ScheduleNext ==
    \E s \in Requested, e \in EnabledInputs, g \in BOOLEAN, h \in ScheduleHours :
        update_schedule(s, e, g, h)

ScheduleSpec == Init /\ [][ScheduleNext]_vars

\* Failure notifications: jobs run from the command line while the clock
\* advances and scheduler_loop iterates
NotifyNext ==
    \/ \E s \in Sources : cron_run(s)
    \/ \E p \in DOMAIN procs : iiq_main_start(p)
    \/ \E p \in DOMAIN procs, fatal \in {NotRaised, Raised} :
            iiq_main_finish(p, <<Succeeded>>, fatal)
    \/ \E p \in DOMAIN procs : google_main_start(p, TRUE)
    \/ \E p \in DOMAIN procs, u \in {Succeeded, Raised} : google_main_finish(p, Succeeded, u)
    \/ \E p \in DOMAIN procs : meraki_main_start(p, TRUE)
    \/ \E p \in DOMAIN procs, r \in MerakiOutcomes : meraki_main_finish(p, r)
    \/ \E t \in TickInputs : scheduler_loop_check(t[1], t[2])
    \/ scheduler_loop_notify
    \/ scheduler_loop_sleep
    \/ clock_tick

NotifySpec == Init /\ [][NotifyNext]_vars

\* Cancels and failure notifications: IIQ and Meraki jobs run from the command
\* line and are cancelled while scheduler_loop iterates
CancelNotifyNext ==
    \/ \E s \in {"iiq", "meraki"} : cron_run(s)
    \/ \E s \in {"iiq", "meraki"}, graceful \in BOOLEAN : cancel_sync(s, graceful)
    \/ \E p \in DOMAIN procs : iiq_main_start(p)
    \/ \E p \in DOMAIN procs, fatal \in {NotRaised, Raised} :
            iiq_main_finish(p, <<Succeeded>>, fatal)
    \/ \E p \in DOMAIN procs : meraki_main_start(p, TRUE)
    \/ \E p \in DOMAIN procs, r \in {MerakiSucceeded, Raised} : meraki_main_finish(p, r)
    \/ \E t \in TickInputs : scheduler_loop_check(t[1], t[2])
    \/ scheduler_loop_notify
    \/ scheduler_loop_sleep
    \/ clock_tick

CancelNotifySpec == Init /\ [][CancelNotifyNext]_vars

\* Fatal exceptions: jobs of the three sources run from the command line and
\* end well or with an exception of any text, while scheduler_loop iterates
FatalNext ==
    \/ \E s \in Sources : cron_run(s)
    \/ \E p \in DOMAIN procs : iiq_main_start(p)
    \/ \E p \in DOMAIN procs, fatal \in {NotRaised} \cup Raisings :
            iiq_main_finish(p, <<Succeeded>>, fatal)
    \/ \E p \in DOMAIN procs : google_main_start(p, TRUE)
    \/ \E p \in DOMAIN procs, d \in {Succeeded} \cup Raisings,
          u \in {Succeeded} \cup Raisings :
            google_main_finish(p, d, u)
    \/ \E p \in DOMAIN procs : meraki_main_start(p, TRUE)
    \/ \E p \in DOMAIN procs, r \in {MerakiSucceeded} \cup Raisings :
            meraki_main_finish(p, r)
    \/ \E t \in TickInputs : scheduler_loop_check(t[1], t[2])
    \/ scheduler_loop_notify
    \/ scheduler_loop_sleep
    \/ clock_tick

FatalSpec == Init /\ [][FatalNext]_vars

\* The bulk user syncs on one upstream listing
UsersInit ==
    /\ InitEngine
    /\ upstream \in UserLists
    /\ store \in Stores
    /\ returned = NoReturn

UsersNext ==
    \/ google_bulk_sync_users
    \/ iiq_bulk_sync_users

UsersSpec == UsersInit /\ [][UsersNext]_vars

\* Fee parsing on one user's fee entries, which upstream may repeat
FeeInit ==
    /\ InitEngine
    /\ upstream \in FeeLists
    /\ store = EmptyStore
    /\ returned = NoReturn

FeeNext ==
    \/ parse_fee_data
    \/ \E k \in DOMAIN upstream : duplicate_fee(k)

FeeSpec == FeeInit /\ [][FeeNext]_vars

\* Conflict detection on one pair of records
ConflictInit ==
    /\ InitEngine
    /\ upstream \in [iiq_record : IIQRecords, google_record : GoogleRecords]
    /\ store = EmptyStore
    /\ returned = NoReturn

ConflictNext == detect

ConflictSpec == ConflictInit /\ [][ConflictNext]_vars

\* Device resolution on one device, any query, any outcome of the point syncs
DeviceInit ==
    /\ InitEngine
    /\ upstream \in [iiq : UpstreamAssets, google : UpstreamChromebooks,
                     meraki : UpstreamClients]
    /\ store \in DeviceStores
    /\ returned = NoReturn

DeviceNext == \E query \in Queries, outcome \in SyncOutcomes : get_device_360(query, outcome)

DeviceSpec == DeviceInit /\ [][DeviceNext]_vars

\* The lookup caches under any sequence of lookups while the wireless
\* client moves
CacheInit ==
    /\ InitEngine
    /\ upstream \in [iiq : {NoRecord}, google : {NoRecord}, meraki : RoamingClients]
    /\ store = [location_cache |-> <<>>, network_cache |-> <<>>]
    /\ returned = NoReturn

CacheNext ==
    \/ \E location_id \in LocationIds, answer \in LocationAnswers :
            location_lookup(location_id, answer)
    \/ \E client \in RoamingClients : client_moves(client)
    \/ \E mac \in MacInputs : network_lookup(mac)

CacheSpec == CacheInit /\ [][CacheNext]_vars

\* Manual triggers and what follows them: the background task that launches
\* the script, and the script
TriggerRun ==
    \/ \E k \in TaskKeys, ok \in BOOLEAN : run_sync_script(k[1], k[2], ok)
    \/ \E p \in DOMAIN procs : iiq_main_start(p)
    \/ \E p \in DOMAIN procs, fatal \in {NotRaised, Raised} :
            iiq_main_finish(p, <<Succeeded>>, fatal)
    \/ \E p \in DOMAIN procs, ok \in BOOLEAN : google_main_start(p, ok)
    \/ \E p \in DOMAIN procs, r \in {Succeeded, Raised} : google_main_finish(p, r, r)
    \/ \E p \in DOMAIN procs, ok \in BOOLEAN : meraki_main_start(p, ok)
    \/ \E p \in DOMAIN procs, r \in {MerakiSucceeded, Raised} : meraki_main_finish(p, r)

TriggerNext ==
    \/ \E s \in Requested : trigger_sync(s)
    \/ trigger_all_syncs
    \/ TriggerRun

\* a background task added to a response is run, and a started process runs
\* until it exits
TriggerSpec == Init /\ [][TriggerNext]_vars /\ WF_vars(TriggerRun)

\* The scripts' processes, however they stop, and the requests that look
\* at their rows
ProcessRun ==
    \/ \E p \in DOMAIN procs : iiq_main_start(p)
    \/ \E p \in DOMAIN procs, fatal \in {NotRaised, Raised} :
            iiq_main_finish(p, <<Succeeded>>, fatal)
    \/ \E p \in DOMAIN procs : meraki_main_start(p, TRUE)
    \/ \E p \in DOMAIN procs, r \in MerakiOutcomes : meraki_main_finish(p, r)

ProcessNext ==
    \/ \E s \in {"iiq", "meraki"} : cron_run(s)
    \/ \E s \in {"iiq", "meraki"} : trigger_sync(s)
    \/ \E s \in {"iiq", "meraki"}, graceful \in BOOLEAN : cancel_sync(s, graceful)
    \/ \E k \in TaskKeys : run_sync_script(k[1], k[2], TRUE)
    \/ \E p \in DOMAIN procs : process_killed(p)
    \/ ProcessRun

\* a process that is alive goes on until it exits
ProcessSpec == Init /\ [][ProcessNext]_vars /\ WF_vars(ProcessRun)

\* Point lookups of any identifier, whatever the upstream systems hold and
\* however the request goes
LookupInit ==
    /\ InitEngine
    /\ upstream \in [iiq : UpstreamAssets, google : UpstreamChromebooks,
                     meraki : {NoRecord}]
    /\ store = EmptyStore
    /\ returned = NoReturn

LookupNext ==
    \/ \E identifier \in Queries, transport \in Transports : iiq_lookup(identifier, transport)
    \/ \E serial \in Queries, transport \in Transports : google_lookup(serial, transport)

LookupSpec == LookupInit /\ [][LookupNext]_vars

\* The paged fetches of an IIQ job under any sequence of answers of the
\* endpoint, and the job's row once the stream has ended
PageInit ==
    /\ InitEngine
    /\ upstream = <<>>
    /\ store = EmptyStore
    /\ returned \in {Generator("assets"), Generator("users")}

PageFetch ==
    \/ \E resp \in PageResponses : fetch_all_assets_paginated(resp)
    \/ \E resp \in PageResponses : fetch_all_users_paginated(resp)

PageNext ==
    \/ PageFetch
    \/ cron_run("iiq")
    \/ \E p \in DOMAIN procs : iiq_main_start(p)
    \/ \E p \in DOMAIN procs :
            /\ returned.pc = "done"
            /\ iiq_main_finish(p, <<StreamResult(returned)>>, NotRaised)

\* every request returns or raises within its timeout of 30 seconds, and the
\* consumer's loop asks for the next item
PageSpec == PageInit /\ [][PageNext]_vars /\ WF_vars(PageFetch)

\* The bulk syncs of the three connectors, run any number of times on one
\* upstream listing
StoreNext ==
    \/ google_bulk_sync_users
    \/ iiq_bulk_sync
    \/ sync_ssids

StoreSpec == UsersInit /\ [][StoreNext]_vars

\* Google and IIQ jobs whose user sync runs on one upstream listing; the
\* Google domain has no devices and IIQ has only its users source enabled
UserJobsInit ==
    /\ InitEngine
    /\ upstream \in UserLists
    /\ store = EmptyStore
    /\ returned = NoReturn

UserJobsNext ==
    \/ \E s \in {"google", "iiq"} : cron_run(s)
    \/ \E p \in DOMAIN procs : iiq_main_start(p)
    \/ \E p \in DOMAIN procs :
            iiq_main_finish(p,
                <<IIQConnector_bulk_sync_users(upstream, store.iiq_users).result>>,
                NotRaised)
    \/ \E p \in DOMAIN procs : google_main_start(p, TRUE)
    \/ \E p \in DOMAIN procs :
            google_main_finish(p, NoDevices,
                GoogleConnector_bulk_sync_users(upstream, store.google_users).result)

UserJobsSpec == UserJobsInit /\ [][UserJobsNext]_vars

TypeOK ==
    /\ \A i \in DOMAIN sync_logs :
        /\ sync_logs[i].source \in Sources
        /\ sync_logs[i].status \in Terminal \cup {"running"}
        /\ sync_logs[i].triggered_by \in Triggers
    /\ \A p \in DOMAIN procs : procs[p].pc \in {"start", "try", "exited"}
    /\ Len(procs) <= MaxJobs
    /\ \A k \in TaskKeys : tasks[k] <= MaxPending

----------------------------------------------------------------------------
(* Properties *)

\* a job for source s was accepted by trigger_sync / trigger_all_syncs and has
\* not written its ledger row yet
InFlight(s) ==
    \/ tasks[<<s, "manual">>] > 0
    \/ \E p \in DOMAIN procs :
        procs[p].source = s /\ procs[p].trigger = "manual" /\ procs[p].pc = "start"

\* a manually triggered job for source s has not finished
Unfinished(s) ==
    \/ InFlight(s)
    \/ \E p \in DOMAIN procs :
        procs[p].source = s /\ procs[p].trigger = "manual" /\ procs[p].pc = "try"

\* C1: for each source at most one sync_logs row has status 'running'.
C1_AtMostOneRunning ==
    \A s \in Sources : Cardinality(RunningIds(s)) <= 1

\* C2: of two trigger_sync(S) calls made while no job of S has registered
\* as running, only one is accepted: the call made while the job accepted
\* by the other is still in flight is answered 409.
C2_SecondTriggerRejected ==
    [][\A s \in Sources :
        (InFlight(s) /\ last'.op = "trigger_sync" /\ last'.source = s)
            => last'.code = 409]_vars

\* C3: with a 'running' row for S, trigger_sync(S) answers 409, schedules no
\* launch, starts no process and leaves the ledger and the tracked-process
\* map as they were.
C3_ConflictRejected ==
    [][\A s \in Sources :
        (HasRunning(s) /\ last'.op = "trigger_sync" /\ last'.source = s)
            => /\ last'.code = 409
               /\ UNCHANGED <<sync_logs, procs, RUNNING_PROCESSES, tasks>>]_vars

C3_Witness ==
    /\ last.op = "trigger_sync"
    /\ last.code = 409
    /\ HasRunning(last.source)

\* C4: cancel_sync(S) requested while a triggered job of S has not finished
\* is accepted and leaves a row of S 'cancelled' with completed_at set, also
\* when the job has not written its 'running' row yet.
C4_TriggerThenCancel ==
    [][\A s \in Sources :
        (Unfinished(s) /\ last'.op = "cancel_sync" /\ last'.source = s)
            => /\ last'.code = 200
               /\ \E i \in DOMAIN sync_logs' :
                    /\ sync_logs'[i].source = s
                    /\ sync_logs'[i].status = "cancelled"
                    /\ sync_logs'[i].completed_at # NULL]_vars

\* C5: a row that has a terminal status keeps that status in every later step.
C5_TerminalIsFinal ==
    [][\A i \in DOMAIN sync_logs :
        sync_logs[i].status \in Terminal
            => sync_logs'[i].status = sync_logs[i].status]_vars

\* C6: a row has status 'success' only with records_failed = 0 (a completed
\* job with failures is 'partial').
C6_SuccessMeansNoFailures ==
    \A i \in DOMAIN sync_logs :
        sync_logs[i].status = "success" => sync_logs[i].records_failed = 0

\* C7: a row has completed_at set exactly when its status is terminal.
C7_CompletedIffTerminal ==
    \A i \in DOMAIN sync_logs :
        (sync_logs[i].completed_at # NULL) <=> (sync_logs[i].status \in Terminal)

C7_Witness ==
    /\ \E i \in DOMAIN sync_logs :
        sync_logs[i].status = "cancelled" /\ sync_logs[i].completed_at # NULL
    /\ \E i \in DOMAIN sync_logs :
        /\ sync_logs[i].status \in {"success", "partial", "error"}
        /\ sync_logs[i].completed_at # NULL

\* C8: with no 'running' row for S, cancel_sync(S) answers 404, signals no
\* process and leaves the ledger, the processes and the tracked-process map
\* as they were.
C8_CancelNotRunning ==
    [][\A s \in Sources :
        (~HasRunning(s) /\ last'.op = "cancel_sync" /\ last'.source = s)
            => /\ last'.code = 404
               /\ last'.signals = {}
               /\ UNCHANGED <<sync_logs, procs, RUNNING_PROCESSES, tasks>>]_vars

\* a 404 although a live process of the source is tracked
C8_Witness ==
    /\ last.op = "cancel_sync"
    /\ last.code = 404
    /\ RUNNING_PROCESSES[last.source] # 0
    /\ Alive(RUNNING_PROCESSES[last.source])

\* C9: trigger_all_syncs puts every source in exactly one of started and
\* skipped, skips exactly the sources with a 'running' row, and schedules one
\* launch for each started source and none for a skipped one.
C9_TriggerAllPartition ==
    [][last'.op = "trigger_all_syncs"
        => /\ last'.started \cup last'.skipped = Sources
           /\ last'.started \cap last'.skipped = {}
           /\ last'.skipped = {s \in Sources : HasRunning(s)}
           /\ \A s \in Sources :
                /\ tasks'[<<s, "manual">>] =
                        tasks[<<s, "manual">>] + (IF s \in last'.started THEN 1 ELSE 0)
                /\ tasks'[<<s, "scheduled">>] = tasks[<<s, "scheduled">>]
           /\ UNCHANGED <<sync_logs, procs, RUNNING_PROCESSES>>]_vars

C9_Witness ==
    /\ last.op = "trigger_all_syncs"
    /\ last.started # {}
    /\ last.skipped # {}
    /\ \A s \in last.started : tasks[<<s, "manual">>] = 1
    /\ \A s \in last.skipped : tasks[<<s, "manual">>] = 0

\* C10: a scheduler tick launches one job for exactly the sources whose
\* schedule is enabled and lists the local hour, at minute 0, and that have no
\* 'running' row; it launches nothing else.
C10_TickLaunchesDue ==
    [][last'.op = "check_and_run_scheduled_syncs"
        => LET due == {s \in Sources :
                        /\ last'.minute = 0
                        /\ sync_schedules[s].present
                        /\ sync_schedules[s].enabled
                        /\ last'.hour \in Elems(sync_schedules[s].hours)
                        /\ ~HasRunning(s)}
           IN  /\ last'.started = due
               /\ \A s \in Sources :
                    /\ tasks'[<<s, "scheduled">>] =
                            tasks[<<s, "scheduled">>] + (IF s \in due THEN 1 ELSE 0)
                    /\ tasks'[<<s, "manual">>] = tasks[<<s, "manual">>]
               /\ UNCHANGED <<sync_logs, procs, RUNNING_PROCESSES>>]_vars

\* a tick at 14:00 that launches one source and skips another that is due
\* but running
C10_Witness ==
    /\ last.op = "check_and_run_scheduled_syncs"
    /\ last.hour = 14 /\ last.minute = 0
    /\ Cardinality(last.started) = 1
    /\ \E s \in Sources \ last.started :
        /\ sync_schedules[s].present /\ sync_schedules[s].enabled
        /\ sync_schedules[s].hours = <<2, 14>>
        /\ HasRunning(s)

\* C11: after every update_schedule request the stored hours of every schedule
\* are a strictly ascending list of integers in 0..23, and a request with an
\* hour outside 0..23 is answered 400 and leaves the schedules as they were.
C11_HoursNormalised ==
    [][last'.op = "update_schedule"
        => /\ \A s \in Sources :
                LET hours == sync_schedules'[s].hours
                IN  /\ \A i \in DOMAIN hours : hours[i] \in 0..23
                    /\ \A i, j \in DOMAIN hours : i < j => hours[i] < hours[j]
           /\ (\E i \in DOMAIN last'.hours : last'.hours[i] \notin 0..23)
                => /\ last'.code = 400
                   /\ UNCHANGED sync_schedules]_vars

\* a request with hour 24 was refused while a schedule stored from the
\* request [14, 2, 14] is in place
C11_Witness ==
    /\ last.op = "update_schedule"
    /\ last.source \in Sources
    /\ last.hours = <<2, 24>>
    /\ last.code = 400
    /\ sync_schedules[last.source].present
    /\ sync_schedules[last.source].hours = <<2, 14>>

\* C12: no row with status 'error' or 'partial' is left without a
\* notification once its completed_at has fallen out of the two-minute window
\* of create_notification_for_failures (from then on no later scan selects
\* it, so it never gets one).
C12_FailuresNotified ==
    \A i \in DOMAIN sync_logs :
        sync_logs[i].status \in {"error", "partial"}
            => \/ Notified(i)
               \/ sync_logs[i].completed_at >= now - NotifyWindow

\* the users of the listing that cannot be stored
Failing(users) == {k \in DOMAIN users : users[k].kind # "valid"}
DistinctIds(users) == \A j, k \in DOMAIN users : users[j].id = users[k].id => j = k
Identifiers(details) == {details[k].identifier : k \in DOMAIN details}

\* C13: a job that synced a listing of N users of which exactly one fails
\* ends with records_processed = N-1, records_failed = 1, status 'partial'
\* and the failing user's identifier in error_details.
C13_PartialFailureIsolated ==
    \A i \in DOMAIN sync_logs :
        (/\ sync_logs[i].status \in Terminal
         /\ DistinctIds(upstream)
         /\ Cardinality(Failing(upstream)) = 1)
            => /\ sync_logs[i].records_processed = Len(upstream) - 1
               /\ sync_logs[i].records_failed = 1
               /\ sync_logs[i].status = "partial"
               /\ \A k \in Failing(upstream) :
                    upstream[k].id \in Identifiers(sync_logs[i].error_details)

\* C14: after a bulk user sync of either connector, every user of the listing
\* that is valid on its own is stored and counted as a success, and exactly
\* the users that fail on their own are counted as failed and reported by
\* identifier, whether or not a batch upsert failed on the way.
C14_BatchRetriedIndividually ==
    (returned.connector \in {"google", "iiq"} /\ DistinctIds(upstream))
        => LET rows == IF returned.connector = "google"
                       THEN store.google_users ELSE store.iiq_users
               failing == Failing(upstream)
           IN  /\ \A k \in DOMAIN upstream \ failing :
                    \E j \in DOMAIN rows :
                        rows[j].id = upstream[k].id /\ rows[j].value = upstream[k].value
               /\ returned.result.success = Len(upstream) - Cardinality(failing)
               /\ returned.result.errors = Cardinality(failing)
               /\ Identifiers(Get(returned.result, "error_details", <<>>))
                    = {upstream[k].id : k \in failing}

\* the rows of a table without their order
RowSet(rows) == {rows[k] : k \in DOMAIN rows}
OneRowPerKey(rows) == \A j, k \in DOMAIN rows : rows[j].id = rows[k].id => j = k
TableOf(connector) ==
    IF connector = "google" THEN "google_users"
    ELSE IF connector = "iiq" THEN "iiq_users"
    ELSE IF connector = "iiq_assets" THEN "iiq_assets" ELSE "meraki_ssids"

\* C15: a bulk sync leaves at most one row per source key, and a bulk sync
\* run again on the same upstream listing leaves the rows of its table, key
\* and attribute values, as the run before left them.
C15_SyncTwiceSameStore ==
    [][returned'.connector # "none" /\ returned' # returned
        => LET table == TableOf(returned'.connector)
           IN  /\ OneRowPerKey(store'[table])
               /\ returned'.again => RowSet(store'[table]) = RowSet(store[table])]_vars

\* a repeated run of a sync that counted two successes or more and left
\* two rows or more, among them key 1 with a value of the listing
C15_Witness ==
    /\ returned.connector \in {"google", "iiq_assets", "meraki_ssids"}
    /\ returned.again
    /\ returned.result.success >= 2
    /\ \E k \in DOMAIN upstream : upstream[k].id = 1 /\ upstream[k].kind = "valid"
    /\ LET rows == store[TableOf(returned.connector)]
       IN  /\ Len(rows) >= 2
           /\ \E j \in DOMAIN rows : rows[j].id = 1 /\ rows[j].value # "old"

\* the sum of Balance over the distinct keys with a positive balance
PositiveKeys(parsed) ==
    {FeeKey(parsed[k]) : k \in {j \in DOMAIN parsed : parsed[j].Balance > 0}}
RECURSIVE SumBalance(_)
SumBalance(keys) ==
    IF keys = {} THEN 0
    ELSE LET key == CHOOSE x \in keys : TRUE
         IN  key[2] + SumBalance(keys \ {key})

\* C16 as stated: for every list of fee entries the returned total balance
\* is the sum of Balance over the distinct (Amount, Balance,
\* LastActivityDate) keys with a positive balance.
C16_TotalIsSumOfDistinct ==
    returned.connector = "fees"
        => returned.fee_balance = SumBalance(PositiveKeys(returned.raw_data))

\* C16, amended: the returned total balance is that sum when the sum is
\* positive and None when no entry has a positive balance; parsing a list
\* that repeats entries of the list parsed before returns the same total.
C16_FeesCountedOnce ==
    [][(returned'.connector = "fees" /\ upstream' = upstream)
        => LET sum == SumBalance(PositiveKeys(upstream))
           IN  /\ returned'.fee_balance = IF sum > 0 THEN sum ELSE NULL
               /\ (/\ returned.connector = "fees"
                    /\ RowSet(returned.raw_data) = RowSet(upstream))
                        => returned'.fee_balance = returned.fee_balance]_vars

\* a list with a repeated entry was parsed after the list without the
\* repetition, and the total is the balance counted once
C16_Witness ==
    /\ returned.connector = "fees"
    /\ returned.raw_data = upstream
    /\ Len(upstream) = 3
    /\ upstream[3] = upstream[1]
    /\ upstream[2].Balance = 0
    /\ upstream[1].Balance = 10
    /\ returned.fee_balance = 10

\* how many conflicts with this id detect_conflicts returned
Count(conflicts, id) == Cardinality({k \in DOMAIN conflicts : conflicts[k].id = id})

\* C17 as stated: for every asset record, detect_conflicts returns exactly
\* one 'asset_tag_serial_match' when the asset tag equals the serial number
\* and none when they differ.
C17_MatchIffEqual ==
    (returned.connector = "conflicts" /\ upstream.iiq_record.exists)
        => Count(returned.conflicts, "asset_tag_serial_match") =
                IF upstream.iiq_record.asset_tag = upstream.iiq_record.serial_number
                THEN 1 ELSE 0

\* C17, amended: detect_conflicts returns exactly one
\* 'asset_tag_serial_match' when the asset record has a non-empty asset tag
\* and a non-empty serial number that are equal after trimming surrounding
\* whitespace and ignoring letter case, and none otherwise, whatever the
\* directory record is.
C17_MatchIffEqualNormalised ==
    returned.connector = "conflicts"
        => LET r == upstream.iiq_record
           IN  Count(returned.conflicts, "asset_tag_serial_match") =
                IF /\ r.exists
                   /\ r.asset_tag \notin {None, <<>>}
                   /\ r.serial_number # <<>>
                   /\ Lower(Strip(r.asset_tag)) = Lower(Strip(r.serial_number))
                THEN 1 ELSE 0

\* tag 'A' and serial 'a' are flagged although the directory record has an
\* owner mismatch of its own
C17_Witness ==
    /\ returned.connector = "conflicts"
    /\ upstream.iiq_record.exists
    /\ upstream.iiq_record.asset_tag = <<"A">>
    /\ upstream.iiq_record.serial_number = <<"a">>
    /\ Count(returned.conflicts, "asset_tag_serial_match") = 1
    /\ Count(returned.conflicts, "owner_mismatch") = 1

\* the two e-mail addresses detect_conflicts compares are there
BothOwnersKnown ==
    /\ upstream.iiq_record.exists
    /\ upstream.google_record.exists
    /\ upstream.iiq_record.assigned_user_email # None
    /\ Len(upstream.google_record.recent_users) > 0
    /\ upstream.google_record.recent_users[1] # None

\* C18 as stated: detect_conflicts returns 'owner_mismatch' if and only if
\* the assigned owner e-mail differs, case-insensitively, from the first
\* entry of recent_users.
C18_MismatchIffDiffer ==
    (returned.connector = "conflicts" /\ BothOwnersKnown)
        => (Count(returned.conflicts, "owner_mismatch") = 1
            <=> Lower(upstream.iiq_record.assigned_user_email)
                    # Lower(upstream.google_record.recent_users[1]))

\* C18, amended: detect_conflicts returns one 'owner_mismatch' if and only
\* if both records exist, the assigned owner e-mail and the first entry of
\* recent_users are both non-blank, and the two differ after trimming
\* surrounding whitespace and ignoring letter case; otherwise it returns
\* none, so e-mails that differ only in letter case never produce it.
C18_MismatchIffDifferNormalised ==
    returned.connector = "conflicts"
        => LET email == IF upstream.iiq_record.exists
                        THEN upstream.iiq_record.assigned_user_email ELSE None
               users == IF upstream.google_record.exists
                        THEN upstream.google_record.recent_users ELSE <<>>
               first == IF users # <<>> THEN users[1] ELSE None
               blank(str) == str = None \/ Strip(str) = <<>>
           IN  Count(returned.conflicts, "owner_mismatch") =
                IF /\ ~blank(email)
                   /\ ~blank(first)
                   /\ Lower(Strip(email)) # Lower(Strip(first))
                THEN 1 ELSE 0

\* owner 'A' against most recent user 'a', with a second recent user 'b':
\* no mismatch
C18_Witness ==
    /\ returned.connector = "conflicts"
    /\ upstream.iiq_record.exists /\ upstream.google_record.exists
    /\ upstream.iiq_record.assigned_user_email = <<"A">>
    /\ upstream.google_record.recent_users = <<<<"a">>, <<"b">>>>
    /\ Count(returned.conflicts, "owner_mismatch") = 0

\* C19: get_device_360 answers with a device view whatever each of the three
\* point syncs did (succeeded, found nothing, failed to commit, raised) and
\* whatever conflicts were detected: no exception leaves the handler, and each
\* source of the view is the row the store holds for the resolved serial
\* number or MAC address after the syncs that did work; a source whose sync
\* succeeded under the resolved serial number or MAC address is in the view.
C19_ViewDespiteFailures ==
    returned.connector = "device" =>
        /\ returned.code = 200
        /\ returned.sources.iiq =
               (IF FirstRow(store.iiq_assets, "serial_number", returned.serial).exists
                THEN FirstRow(store.iiq_assets, "serial_number", returned.serial)
                ELSE FirstRow(store.iiq_assets, "asset_tag", returned.serial))
        /\ returned.sources.google =
               FirstRow(store.google_devices, "serial_number", returned.serial)
        /\ returned.sources.meraki =
               (IF Truthy(returned.target_mac)
                THEN FirstRow(store.network_cache, "mac_address",
                              CleanMac(returned.target_mac))
                ELSE NoRecord)
        /\ returned.syncs.iiq = "success" => returned.sources.iiq.exists
        /\ returned.syncs.meraki = "success" => returned.sources.meraki.exists
        /\ (/\ returned.syncs.google = "success"
            /\ upstream.google.serial_number = returned.serial)
               => returned.sources.google.exists

\* the asset lookup raised and a conflict was detected, yet the view carries
\* the directory record just synced and the stored asset record
C19_Witness ==
    /\ returned.connector = "device"
    /\ returned.code = 200
    /\ returned.syncs.iiq = "caught"
    /\ returned.syncs.google = "success"
    /\ returned.sources.google.exists
    /\ returned.sources.iiq.exists
    /\ returned.conflicts # <<>>

\* what a fatal exception e in the job of process p does and leaves alone
FatalAbortsOnly(p, e) ==
    LET id == procs[p].log
    IN  /\ sync_logs'[id].status = "error"
        /\ sync_logs'[id].completed_at = now /\ now # NULL
        /\ sync_logs'[id].error_message.text = e.text
        /\ sync_logs'[id].error_message.len = (IF e.len < 500 THEN e.len ELSE 500)
        /\ DOMAIN sync_logs' = DOMAIN sync_logs
        /\ \A k \in DOMAIN sync_logs \ {id} : sync_logs'[k] = sync_logs[k]
        /\ DOMAIN procs' = DOMAIN procs
        /\ \A q \in DOMAIN procs \ {p} : procs'[q] = procs[q]
        /\ UNCHANGED <<RUNNING_PROCESSES, tasks, sync_schedules, sync_notifications,
                        sched_pc, wake>>

C21_CancelStopsJob ==
    [][(last'.op = "cancel_sync" /\ last'.code = 200) =>
          LET source == last'.source
              process == RUNNING_PROCESSES[source]
          IN  /\ ("SIGTERM" \in last'.signals) <=> (process # 0 /\ Alive(process))
              /\ ("SIGKILL" \in last'.signals) => ("SIGTERM" \in last'.signals)
              /\ RUNNING_PROCESSES'[source] = 0
              /\ \A id \in DOMAIN sync_logs :
                    (sync_logs[id].status = "running"
                        /\ sync_logs'[id].status = "cancelled") =>
                        /\ sync_logs'[id].source = source
                        /\ sync_logs'[id].error_message = CancelMessage
                        /\ \A p \in DOMAIN procs' :
                              procs'[p].log = id => procs'[p].pc = "exited"]_vars

\* C22: no two notifications reference the same ledger row, however many
\* scans of the scheduler loop find the row inside the two-minute window.
C22_NotifiedOnce ==
    \A m, n \in DOMAIN sync_notifications :
        sync_notifications[m].sync_log_id = sync_notifications[n].sync_log_id => m = n

\* the loop sleeps after a scan that found, still inside its window, a failed
\* row that an earlier scan had notified
C22_Witness ==
    /\ sched_pc = "sleep"
    /\ \E n \in DOMAIN sync_notifications :
        LET id == sync_notifications[n].sync_log_id
            scan == wake - SleepMinutes
        IN  /\ sync_notifications[n].created_at < scan
            /\ sync_logs[id].status \in {"error", "partial"}
            /\ sync_logs[id].completed_at >= scan - NotifyWindow

\* C23: no notification references a ledger row that cancel_sync has marked
\* 'cancelled', whatever was written to the row after the cancel.
C23_CancelledNeverNotified ==
    \A n \in DOMAIN sync_notifications :
        ~sync_logs[sync_notifications[n].sync_log_id].cancel_requested

\* the entries of a cache table in the state before a step are all, with the
\* same content, among its entries after the step
CacheKept(table, key) ==
    \A k \in DOMAIN store[table] :
        FirstRow(store'[table], key, store[table][k][key]) = store[table][k]
LookupOfCached(connector, table, key) ==
    /\ returned'.connector = connector
    /\ FirstRow(store[table], key, returned'.key).exists

C25_ShortStreamIsSoftError ==
    (/\ returned.pc = "done"
     /\ returned.stop = "failed"
     /\ Len(returned.requested) >= 2
     /\ returned.total_fetched > 0)
        => /\ StreamResult(returned).errors > 0
           /\ \A i \in DOMAIN sync_logs :
                ~(sync_logs[i].status = "success" /\ sync_logs[i].records_failed = 0)

\* C27: under every sequence of answers the generator ends; it goes on only
\* while fewer items than the TotalRows of the first page were fetched, it
\* stops at an empty page, a failed request or the total reached, and it asks
\* for page indexes that strictly increase.
C27_FetchTerminates ==
    /\ <>(returned.pc = "done")
    /\ [](/\ \A j, k \in DOMAIN returned.requested :
                j < k => returned.requested[j] < returned.requested[k]
          /\ returned.pc = "request" /\ ~returned.first
                => returned.total_fetched < returned.total_rows
          /\ returned.pc = "done" <=> returned.stop \in {"empty", "failed", "total"}
          /\ returned.stop = "total" => returned.total_fetched >= returned.total_rows)

\* a fetch that ended on the total after three pages
C27_Witness ==
    /\ returned.pc = "done"
    /\ returned.stop = "total"
    /\ returned.requested = <<0, 1, 2>>

\* C26: the outcome of a point lookup whose request failed (API unreachable
\* or non-2xx) differs from the outcome the same lookup has when the request
\* is answered and the record does not exist upstream, in what the fetch
\* returns and in what sync_record answers.
C26_NotFoundDistinctFromTransportError ==
    (/\ returned # NoReturn
     /\ returned.connector = "lookup"
     /\ returned.transport # "ok")
        => /\ returned.raw_data # NoRecord
           /\ ~(returned.status = "error"
                /\ returned.message \in {"Asset not found in IIQ for query",
                                         "Device not found in Google Admin"})

\* C28: every accepted trigger of a source is eventually followed by a new
\* SyncLog row of that source.  A trigger is accepted by a step of
\* trigger_sync answered with success or by a step of trigger_all_syncs that
\* lists the source in 'started'; the obligation ends when the pending
\* launches no longer find room among the MaxJobs processes of a behaviour.
C28_AcceptedTriggerLeavesRow ==
    LET AcceptedTrigger(s) ==
            \/ last.op = "trigger_sync" /\ last.source = s /\ last.code = 200
            \/ last.op = "trigger_all_syncs" /\ s \in last.started
        RowsOf(s) == Cardinality({i \in DOMAIN sync_logs : sync_logs[i].source = s})
        Launchable ==
            Len(procs) + tasks[<<"iiq", "manual">>] + tasks[<<"google", "manual">>]
                + tasks[<<"meraki", "manual">>] <= MaxJobs
    IN  \A s \in Sources : \A n \in 0..MaxJobs :
            (AcceptedTrigger(s) /\ Launchable /\ RowsOf(s) = n)
                ~> (RowsOf(s) > n \/ ~Launchable)

\* C29: once the process of a 'running' row has stopped, the row eventually
\* reaches a terminal status.
C29_StoppedJobReachesTerminal ==
    LET RowStatus(p) ==
            IF p \in DOMAIN procs /\ procs[p].log # 0
            THEN sync_logs[procs[p].log].status
            ELSE "none"
        Stopped(p) == p \in DOMAIN procs /\ ~Alive(p)
    IN  \A p \in 1..MaxJobs :
            (Stopped(p) /\ RowStatus(p) = "running") ~> (RowStatus(p) \in Terminal)

\* C30: when a job completes, its row's records_processed is the sum of the
\* success counts and its records_failed the sum of the error counts that the
\* connector sync functions it ran returned, in all three scripts.
C30_CountsAreSums ==
    [][LET Counts(p, processed, failed) ==
                /\ sync_logs'[procs[p].log].records_processed = processed
                /\ sync_logs'[procs[p].log].records_failed = failed
       IN  \A p \in DOMAIN procs :
              /\ \A r \in Results :
                    iiq_main_finish(p, <<r>>, NotRaised) => Counts(p, r.success, r.errors)
              /\ \A d \in Results, u \in Results :
                    google_main_finish(p, d, u)
                        => Counts(p, d.success + u.success, d.errors + u.errors)
              /\ \A r \in MerakiResults :
                    meraki_main_finish(p, r)
                        => Counts(p, r["total_success"], r["total_errors"])]_vars

====
